---- MODULE Spec2Model ----
(***************************************************************************)
(* Philippine tax rules engine (ph-tax-app): the rule evaluation pipeline  *)
(* RulesEngineService.runAssessment and its five rule modules.             *)
(*                                                                         *)
(* Money is counted in whole centavos (1 peso = 100).  The declared        *)
(* amounts of the model are whole pesos; for those every product with a    *)
(* rate of the code (8%, 15%, 20%, 25%, 30%, 35%, 40%) is a whole number   *)
(* of centavos, so the integer arithmetic below is the exact value of the  *)
(* code's expressions.  Binary floating point error of the JavaScript      *)
(* number type is not modelled.                                            *)
(***************************************************************************)
EXTENDS Integers, Sequences, FiniteSets, TLC

(***************************************************************************)
(* Enumerations (rules-engine/types/index.ts)                              *)
(***************************************************************************)
FREELANCER == "FREELANCER"
SELF_EMPLOYED == "SELF_EMPLOYED"
MICRO_SMALL_BUSINESS == "MICRO_SMALL_BUSINESS"
MIXED_INCOME == "MIXED_INCOME"
UserType == {FREELANCER, SELF_EMPLOYED, MICRO_SMALL_BUSINESS, MIXED_INCOME}

NOT_REGISTERED == "NOT_REGISTERED"
PENDING_REGISTRATION == "PENDING_REGISTRATION"
REGISTERED == "REGISTERED"
NEEDS_UPDATE == "NEEDS_UPDATE"
RegistrationStatus == {NOT_REGISTERED, PENDING_REGISTRATION, REGISTERED, NEEDS_UPDATE}

GRADUATED_RATES == "GRADUATED_RATES"
EIGHT_PERCENT_FLAT == "EIGHT_PERCENT_FLAT"
UNDETERMINED == "UNDETERMINED"
TaxRegime == {GRADUATED_RATES, EIGHT_PERCENT_FLAT, UNDETERMINED}

FREELANCE_SERVICE == "FREELANCE_SERVICE"
EMPLOYMENT == "EMPLOYMENT"

INFO == "INFO"
WARNING == "WARNING"
CPA_REVIEW_REQUIRED == "CPA_REVIEW_REQUIRED"

\* The value of an optional field that the caller left out.
Undefined == "undefined"

\* A withheldAmount that the caller left out (withheldAmount?: number).
NoAmount == -1

(***************************************************************************)
(* State                                                                   *)
(***************************************************************************)
VARIABLES
  ruleInput,          \* the RuleInput the caller hands to runAssessment
  hostTz,             \* minutes the host's local time is ahead of UTC
  calls,              \* per invocation of runAssessment: its position and its locals
  assessmentResults,  \* the rows of the assessmentResult table, in creation order
  requests,           \* per invocation of AssessmentService.runAssessment: its position and its locals
  clock,              \* the database's now(), the default of assessedAt
  taxProfile,         \* the stored TaxProfile row that update() works on
  updates             \* TaxProfileService.update calls in flight, by call

vars == <<ruleInput, hostTz, calls, assessmentResults, requests, clock,
          taxProfile, updates>>

(***************************************************************************)
(* Thresholds and the bracket table, in centavos                           *)
(***************************************************************************)
Peso == 100

VAT_THRESHOLD == 3000000 * Peso
PERSONAL_EXEMPTION_THRESHOLD == 250000 * Peso

\* A rate p/q of the code, as the pair of its numerator and denominator.
EIGHT_PERCENT_RATE == [num |-> 2, den |-> 25]
OSD_RATE == [num |-> 2, den |-> 5]

\* Number.POSITIVE_INFINITY as the max of the last bracket: larger than every
\* amount of the model.
Infinity == 2000000000

GRADUATED_TAX_BRACKETS_2023 ==
  << [min |-> 0,                 max |-> 250000 * Peso,  rate |-> [num |-> 0, den |-> 1],  baseTax |-> 0],
     [min |-> 250001 * Peso,     max |-> 400000 * Peso,  rate |-> [num |-> 3, den |-> 20], baseTax |-> 0],
     [min |-> 400001 * Peso,     max |-> 800000 * Peso,  rate |-> [num |-> 1, den |-> 5],  baseTax |-> 22500 * Peso],
     [min |-> 800001 * Peso,     max |-> 2000000 * Peso, rate |-> [num |-> 1, den |-> 4],  baseTax |-> 102500 * Peso],
     [min |-> 2000001 * Peso,    max |-> 8000000 * Peso, rate |-> [num |-> 3, den |-> 10], baseTax |-> 402500 * Peso],
     [min |-> 8000001 * Peso,    max |-> Infinity,       rate |-> [num |-> 7, den |-> 20], baseTax |-> 2202500 * Peso] >>

(***************************************************************************)
(* Arithmetic of the JavaScript expressions                                *)
(***************************************************************************)
Max(a, b) == IF a >= b THEN a ELSE b
Min(a, b) == IF a <= b THEN a ELSE b

\* x * rate, with the division split so that no intermediate product
\* leaves the 32-bit range.
Times(x, rate) ==
  (x \div rate.den) * rate.num + ((x % rate.den) * rate.num) \div rate.den

\* a / b > rate in JavaScript, for a, b >= 0: 0/0 is NaN (every comparison
\* is false) and a/0 with a > 0 is +Infinity; otherwise a/b > p/q exactly
\* when a exceeds the whole part of b*p/q.
RatioGreater(a, b, rate) ==
  IF b = 0 THEN a > 0 ELSE a > Times(b, rate)

\* Math.round(x * 100) / 100 for an amount x >= 0 given in quarters of a
\* centavo: the nearest centavo, a half rounding up.
Round2(quarterCentavos) == (quarterCentavos + 2) \div 4

\* reduce((sum, s) => sum + s.grossAmount, 0)
RECURSIVE SumGross(_)
SumGross(streams) ==
  IF streams = <<>> THEN 0 ELSE Head(streams).grossAmount + SumGross(Tail(streams))

\* reduce((sum, e) => sum + e.amount, 0)
RECURSIVE SumAmount(_)
SumAmount(expenses) ==
  IF expenses = <<>> THEN 0 ELSE Head(expenses).amount + SumAmount(Tail(expenses))

\* reduce((sum, s) => sum + (s.withheldAmount || 0), 0)
RECURSIVE SumWithheld(_)
SumWithheld(streams) ==
  IF streams = <<>> THEN 0
  ELSE (IF Head(streams).withheldAmount = NoAmount THEN 0 ELSE Head(streams).withheldAmount)
       + SumWithheld(Tail(streams))

\* Array.prototype.some, applied to the elements that pass its test.
Some(passing) == Len(passing) > 0

(***************************************************************************)
(* RegimeDeterminationRule (rules/regime-determination.rule.ts)            *)
(***************************************************************************)
Regime_calculateBusinessIncome(input) ==
  SumGross(SelectSeq(input.incomeStreams, LAMBDA stream : stream.incomeType # EMPLOYMENT))

Regime_calculateTotalDeductions(input) ==
  SumAmount(SelectSeq(input.expenses, LAMBDA exp : exp.isDeductible))

Regime_eligibleUserTypes == {FREELANCER, SELF_EMPLOYED, MICRO_SMALL_BUSINESS}

Regime_checkEligibility(input) ==
  LET businessIncome == Regime_calculateBusinessIncome(input) IN
  IF input.userType \notin Regime_eligibleUserTypes
    THEN [isEligible |-> FALSE,
          reason |-> "Only self-employed individuals, freelancers, and sole proprietors can elect 8% tax."]
  ELSE IF businessIncome > VAT_THRESHOLD
    THEN [isEligible |-> FALSE,
          reason |-> "Gross receipts/sales exceed 3,000,000. You are VAT-registered and cannot use 8% flat tax."]
  ELSE IF input.userType = MIXED_INCOME \/ input.hasEmploymentIncome
    THEN [isEligible |-> TRUE,
          reason |-> "Eligible for 8% flat tax on business/professional income."]
  ELSE [isEligible |-> TRUE,
        reason |-> "You meet all requirements for 8% flat tax on gross sales/receipts."]

Regime_calculate8PercentTax(businessIncome) ==
  LET taxableAmount == Max(0, businessIncome - PERSONAL_EXEMPTION_THRESHOLD) IN
  Times(taxableAmount, EIGHT_PERCENT_RATE)

RECURSIVE Regime_applyBracketsFrom(_, _)
Regime_applyBracketsFrom(taxableIncome, i) ==
  LET bracket == GRADUATED_TAX_BRACKETS_2023[i] IN
  IF taxableIncome <= bracket.max
    THEN bracket.baseTax + Times(Max(0, taxableIncome - bracket.min), bracket.rate)
  ELSE IF i < Len(GRADUATED_TAX_BRACKETS_2023)
    THEN Regime_applyBracketsFrom(taxableIncome, i + 1)
  ELSE bracket.baseTax + Times(taxableIncome - bracket.min, bracket.rate)

Regime_applyGraduatedRates(taxableIncome) == Regime_applyBracketsFrom(taxableIncome, 1)

\* The graduated tax on the itemized deductions alone, without the OSD.
Regime_graduatedTaxItemizedOnly(businessIncome, actualDeductions) ==
  Regime_applyGraduatedRates(Max(0, businessIncome - actualDeductions))

Regime_calculateGraduatedTax(businessIncome, actualDeductions) ==
  LET osd == Times(businessIncome, OSD_RATE)
      bestDeduction == Max(actualDeductions, osd)
      taxableIncome == Max(0, businessIncome - bestDeduction)
  IN  Regime_applyGraduatedRates(taxableIncome)

\* tax / businessIncome without the test for a business income of 0.
EffectiveRateUnguarded(tax, businessIncome) == [num |-> tax, den |-> businessIncome]

\* tax / businessIncome as the fraction num/den; 0 when businessIncome is 0.
EffectiveRate(tax, businessIncome) ==
  IF businessIncome > 0 THEN [num |-> tax, den |-> businessIncome]
  ELSE [num |-> 0, den |-> 1]

\* The policy without its expense-ratio rule.
Regime_recommendationIgnoringExpenses(isEligible, totalDeductions, businessIncome, eightPercentTax, graduatedTax) ==
  IF ~isEligible
    THEN [recommendation |-> GRADUATED_RATES, reason |-> "8% option not available"]
  ELSE IF eightPercentTax < graduatedTax
    THEN [recommendation |-> EIGHT_PERCENT_FLAT, reason |-> "8% flat tax would result in lower tax liability."]
  ELSE [recommendation |-> GRADUATED_RATES, reason |-> "graduated rates would result in lower tax liability."]

\* "Determine recommendation": the if / else-if chain of execute.
Regime_recommendation(isEligible, totalDeductions, businessIncome, eightPercentTax, graduatedTax) ==
  IF ~isEligible
    THEN [recommendation |-> GRADUATED_RATES, reason |-> "8% option not available"]
  ELSE IF RatioGreater(totalDeductions, businessIncome, OSD_RATE)
    THEN [recommendation |-> GRADUATED_RATES, reason |-> "Your expenses appear high relative to income."]
  ELSE IF eightPercentTax < graduatedTax
    THEN [recommendation |-> EIGHT_PERCENT_FLAT, reason |-> "8% flat tax would result in lower tax liability."]
  ELSE [recommendation |-> GRADUATED_RATES, reason |-> "graduated rates would result in lower tax liability."]

Regime_execute(input) ==
  LET eligible8Percent == Regime_checkEligibility(input)
      businessIncome == Regime_calculateBusinessIncome(input)
      totalDeductions == Regime_calculateTotalDeductions(input)
      eightPercentTax == Regime_calculate8PercentTax(businessIncome)
      graduatedTax == Regime_calculateGraduatedTax(businessIncome, totalDeductions)
      comparison ==
        [eightPercent |->
           [estimatedTax |-> IF eligible8Percent.isEligible THEN eightPercentTax ELSE 0,
            effectiveRate |-> EffectiveRate(eightPercentTax, businessIncome)],
         graduatedRates |->
           [estimatedTax |-> graduatedTax,
            effectiveRate |-> EffectiveRate(graduatedTax, businessIncome)]]
      decision == Regime_recommendation(eligible8Percent.isEligible, totalDeductions,
                                        businessIncome, eightPercentTax, graduatedTax)
  IN  [eligible8Percent |-> eligible8Percent.isEligible,
       eligibilityReason |-> eligible8Percent.reason,
       comparison |-> comparison,
       recommendation |-> decision.recommendation,
       recommendationReason |-> decision.reason,
       ruleModuleId |-> "REGIME_DETERMINATION"]

(***************************************************************************)
(* TaxComputationRule (rules/tax-computation.rule.ts)                      *)
(***************************************************************************)
Tax_calculateGrossIncome(input) == SumGross(input.incomeStreams)

\* The business income with the employment streams left in.
Tax_businessIncomeWithEmployment(input) == SumGross(input.incomeStreams)

Tax_calculateBusinessIncome(input) ==
  SumGross(SelectSeq(input.incomeStreams, LAMBDA stream : stream.incomeType # EMPLOYMENT))

Tax_calculateEmploymentIncome(input) ==
  SumGross(SelectSeq(input.incomeStreams, LAMBDA stream : stream.incomeType = EMPLOYMENT))

Tax_calculateTotalDeductions(input) ==
  SumAmount(SelectSeq(input.expenses, LAMBDA exp : exp.isDeductible))

\* The credits with the hasWithholding test left out.
Tax_creditsIgnoringFlag(input) == SumWithheld(input.incomeStreams)

\* filter(hasWithholding && withheldAmount): an absent or zero amount is falsy.
Tax_calculateWithholdingCredits(input) ==
  SumWithheld(SelectSeq(input.incomeStreams,
     LAMBDA stream : stream.hasWithholding /\ stream.withheldAmount # NoAmount
                     /\ stream.withheldAmount # 0))

Tax_compute8PercentTax(businessIncome) ==
  LET taxableAmount == Max(0, businessIncome - PERSONAL_EXEMPTION_THRESHOLD) IN
  [tax |-> Times(taxableAmount, EIGHT_PERCENT_RATE), taxableAmount |-> taxableAmount]

RECURSIVE Tax_applyBracketsFrom(_, _)
Tax_applyBracketsFrom(taxableIncome, i) ==
  LET bracket == GRADUATED_TAX_BRACKETS_2023[i] IN
  IF taxableIncome <= bracket.max
    THEN bracket.baseTax + Times(Max(0, taxableIncome - bracket.min), bracket.rate)
  ELSE IF i < Len(GRADUATED_TAX_BRACKETS_2023)
    THEN Tax_applyBracketsFrom(taxableIncome, i + 1)
  ELSE bracket.baseTax + Times(taxableIncome - bracket.min, bracket.rate)

Tax_applyGraduatedRates(taxableIncome) == Tax_applyBracketsFrom(taxableIncome, 1)

Tax_computeGraduatedTax(businessIncome, actualDeductions, employmentIncome) ==
  LET osd == Times(businessIncome, OSD_RATE)
      useOSD == osd >= actualDeductions
      deduction == IF useOSD THEN osd ELSE actualDeductions
      taxableBusinessIncome == Max(0, businessIncome - deduction)
      totalTaxableIncome == taxableBusinessIncome
  IN  [tax |-> Tax_applyGraduatedRates(totalTaxableIncome),
       taxableIncome |-> totalTaxableIncome,
       deductionMethod |-> IF useOSD THEN "Optional Standard Deduction (40%)" ELSE "Itemized Deductions"]

\* quarterlyAmount = annualTax / 4 is kept unrounded: annualTax centavos are
\* 4 * annualTax quarter-centavos, a quarter of which is annualTax
\* quarter-centavos.  The true-up subtracts the unrounded quarterlyAmount * 3.
Tax_calculateQuarterlyPayments(annualTax, regime) ==
  LET quarterlyAmount == annualTax IN
  [q1 |-> Round2(quarterlyAmount),
   q2 |-> Round2(quarterlyAmount),
   q3 |-> Round2(quarterlyAmount),
   annual |-> Round2(4 * annualTax - quarterlyAmount * 3)]

Tax_execute(input) ==
  LET grossIncome == Tax_calculateGrossIncome(input)
      businessIncome == Tax_calculateBusinessIncome(input)
      employmentIncome == Tax_calculateEmploymentIncome(input)
      totalDeductions == Tax_calculateTotalDeductions(input)
      creditsApplied == Tax_calculateWithholdingCredits(input)
      flat == Tax_compute8PercentTax(businessIncome)
      grad == Tax_computeGraduatedTax(businessIncome, totalDeductions, employmentIncome)
      isFlat == input.selectedRegime = EIGHT_PERCENT_FLAT
      estimatedTax == IF isFlat THEN flat.tax ELSE grad.tax
      taxableIncome == IF isFlat THEN flat.taxableAmount ELSE grad.taxableIncome
      netTaxPayable == Max(0, estimatedTax - creditsApplied)
  IN  [grossIncome |-> grossIncome,
       businessIncome |-> businessIncome,
       employmentIncome |-> employmentIncome,
       totalDeductions |-> totalDeductions,
       taxableIncome |-> taxableIncome,
       estimatedTax |-> estimatedTax,
       creditsApplied |-> creditsApplied,
       netTaxPayable |-> netTaxPayable,
       quarterlyPayments |-> Tax_calculateQuarterlyPayments(netTaxPayable, input.selectedRegime)]

(***************************************************************************)
(* Calendar: the JavaScript Date operations the deadline rule uses         *)
(***************************************************************************)
\* new Date(year, monthIndex, day): the local calendar day, counted in days
\* since 1970-01-01 (proleptic Gregorian calendar, years counted from March).
DayNumber(y, m, d) ==
  LET yy == IF m <= 2 THEN y - 1 ELSE y
      era == yy \div 400
      yoe == yy - era * 400
      mp == IF m > 2 THEN m - 3 ELSE m + 9
      doy == (153 * mp + 2) \div 5 + d - 1
      doe == yoe * 365 + yoe \div 4 - yoe \div 100 + doy
  IN  era * 146097 + doe - 719468

\* The calendar date of a day number.
CivilFromDays(n) ==
  LET z == n + 719468
      era == z \div 146097
      doe == z - era * 146097
      yoe == (doe - doe \div 1460 + doe \div 36524 - doe \div 146096) \div 365
      doy == doe - (365 * yoe + yoe \div 4 - yoe \div 100)
      mp == (5 * doy + 2) \div 153
      d == doy - (153 * mp + 2) \div 5 + 1
      m == IF mp < 10 THEN mp + 3 ELSE mp - 9
      y == yoe + era * 400 + (IF m <= 2 THEN 1 ELSE 0)
  IN  [y |-> y, m |-> m, d |-> d]

\* Date.prototype.getDay: 0 is Sunday, 6 is Saturday (1970-01-01 was a Thursday).
GetDay(n) == (n + 4) % 7

MinutesPerDay == 1440

\* date.toISOString().split('T')[0] of the Date that is local midnight of day
\* n on a host whose clock is tz minutes ahead of UTC: the UTC calendar date
\* of that instant.
ToISODateString(n, tz) ==
  LET utcDay == (n * MinutesPerDay - tz) \div MinutesPerDay
      c == CivilFromDays(utcDay)
  IN  [asap |-> FALSE, y |-> c.y, m |-> c.m, d |-> c.d]

ASAP == [asap |-> TRUE, y |-> 0, m |-> 0, d |-> 0]

\* new Date('YYYY-MM-DD').getTime(): UTC midnight of the written date, in days.
ParseISODate(dueDate) == DayNumber(dueDate.y, dueDate.m, dueDate.d)

(***************************************************************************)
(* FilingObligationsRule (rules/filing-obligations.rule.ts)                *)
(***************************************************************************)
Filing_requiresQuarterlyIncomeTax(input) ==
  input.userType \in {FREELANCER, SELF_EMPLOYED, MICRO_SMALL_BUSINESS, MIXED_INCOME}

\* The percentage-tax test with the mixed-income earner among the user types.
Filing_requiresPercentageTaxAllTypes(input) ==
  IF input.selectedRegime = EIGHT_PERCENT_FLAT THEN FALSE
  ELSE input.userType \in UserType /\ input.selectedRegime = GRADUATED_RATES

Filing_requiresPercentageTax(input) ==
  IF input.selectedRegime = EIGHT_PERCENT_FLAT THEN FALSE
  ELSE input.userType \in {FREELANCER, SELF_EMPLOYED, MICRO_SMALL_BUSINESS}
       /\ input.selectedRegime = GRADUATED_RATES

Filing_getAnnualReturnNotes(input) ==
  IF input.hasEmploymentIncome THEN "mixed-income: attach Form 2316"
  ELSE IF input.selectedRegime = EIGHT_PERCENT_FLAT THEN "8% flat"
  ELSE "graduated"

\* The counter kept as a field of the rule object, which every call shares:
\* a later call goes on where the first call's ids ended.
Filing_sharedObligationCounter(call) ==
  IF call = 1 THEN 1 ELSE 1 + Len(calls[1].obligations)

\* let obligationCounter = 1, for the call that runs the rule
Filing_obligationCounter(call) == 1

\* One pushed record; the id is filled in when the record is pushed.
Obligation(formCode, frequency, isApplicable, notes) ==
  [id |-> <<"OBL", 0>>, formCode |-> formCode, frequency |-> frequency,
   isApplicable |-> isApplicable, ruleModuleId |-> "FILING_OBLIGATIONS", notes |-> notes]

\* nextId() at every push: the records get consecutive ids in push order.
\* The ids of a counter that is read but never advanced.
NumberIdsWithoutIncrement(records, prefix, first) ==
  [i \in 1..Len(records) |-> [records[i] EXCEPT !.id = <<prefix, first>>]]

NumberIds(records, prefix, first) ==
  [i \in 1..Len(records) |-> [records[i] EXCEPT !.id = <<prefix, first + i - 1>>]]

Filing_execute(input, call) ==
  LET flat == input.selectedRegime = EIGHT_PERCENT_FLAT
      quarterlyIncomeTax ==
        IF Filing_requiresQuarterlyIncomeTax(input)
          THEN << Obligation("1701Q", "quarterly", TRUE, IF flat THEN "8%" ELSE "graduated") >>
          ELSE << >>
      annualIncomeTax ==
        << Obligation("1701", "annual", TRUE, Filing_getAnnualReturnNotes(input)) >>
      percentageTax ==
        IF Filing_requiresPercentageTax(input)
          THEN << Obligation("2551Q", "quarterly", TRUE, "3% of gross sales/receipts") >>
        ELSE IF flat
          THEN << Obligation("2551Q", "quarterly", FALSE, "Not required because you elected 8% flat tax") >>
        ELSE << >>
      registration ==
        IF input.registrationStatus = NOT_REGISTERED
          THEN << Obligation("1901", "annual", TRUE, "register before starting business") >>
          ELSE << >>
      registrationFee ==
        IF input.registrationStatus = REGISTERED
          THEN << Obligation("0605", "annual", TRUE, "annual registration fee") >>
          ELSE << >>
      withholding ==
        IF Some(SelectSeq(input.incomeStreams, LAMBDA s : s.hasWithholding))
          THEN << Obligation("2307", "quarterly", TRUE, "keep all 2307s") >>
          ELSE << >>
      employment ==
        IF input.hasEmploymentIncome
          THEN << Obligation("2316", "annual", TRUE, "from employer") >>
          ELSE << >>
      books ==
        IF input.userType # MIXED_INCOME
           \/ Some(SelectSeq(input.incomeStreams, LAMBDA s : s.incomeType # EMPLOYMENT))
          THEN << Obligation("BOOKS", "annual", TRUE, IF flat THEN "simplified books" ELSE "full books") >>
          ELSE << >>
  IN  NumberIds(quarterlyIncomeTax \o annualIncomeTax \o percentageTax \o registration
                  \o registrationFee \o withholding \o employment \o books,
                "OBL", Filing_obligationCounter(call))

(***************************************************************************)
(* DeadlineCalculationRule (rules/deadline-calculation.rule.ts)            *)
(***************************************************************************)
\* FILING_DEADLINES of types/index.ts: the forms that have a configuration.
FILING_DEADLINES ==
  [f \in {"1701Q", "1701", "2551Q"} |->
     IF f = "1701Q"
       THEN [quarterDeadlines |-> [Q1 |-> [month |-> 5, day |-> 15],
                                   Q2 |-> [month |-> 8, day |-> 15],
                                   Q3 |-> [month |-> 11, day |-> 15]],
             hasAnnualDeadline |-> FALSE,
             annualDeadline |-> [month |-> 0, day |-> 0]]
     ELSE IF f = "1701"
       THEN [quarterDeadlines |-> [Q1 |-> [month |-> 4, day |-> 15],
                                   Q2 |-> [month |-> 4, day |-> 15],
                                   Q3 |-> [month |-> 4, day |-> 15]],
             hasAnnualDeadline |-> TRUE,
             annualDeadline |-> [month |-> 4, day |-> 15]]
     ELSE [quarterDeadlines |-> [Q1 |-> [month |-> 4, day |-> 25],
                                 Q2 |-> [month |-> 7, day |-> 25],
                                 Q3 |-> [month |-> 10, day |-> 25],
                                 Q4 |-> [month |-> 1, day |-> 25]],
           hasAnnualDeadline |-> FALSE,
           annualDeadline |-> [month |-> 0, day |-> 0]]]

HasConfig(formCode) == formCode \in DOMAIN FILING_DEADLINES

\* The local calendar day after the shift off the weekend.
Deadline_adjustForWeekend(date) ==
  LET dayOfWeek == GetDay(date) IN
  IF dayOfWeek = 0 THEN date + 1
  ELSE IF dayOfWeek = 6 THEN date + 2
  ELSE date

Deadline_calculateDueDate(year, month, day, period) ==
  LET dueDate == IF period = "Q4" THEN DayNumber(year + 1, month, day)
                 ELSE DayNumber(year, month, day)
  IN  Deadline_adjustForWeekend(dueDate)

\* let deadlineCounter = 1, for the call that runs the rule
Deadline_deadlineCounter(call) == 1

Deadline(obligation, dueDate, period, reminderDays) ==
  [id |-> <<"DL", 0>>, obligationId |-> obligation.id, formCode |-> obligation.formCode,
   dueDate |-> dueDate, period |-> period, reminderDays |-> reminderDays]

Deadline_quarters == <<"Q1", "Q2", "Q3">>

\* The deadlines pushed for one applicable obligation, in push order.
Deadline_forObligation(input, obligation, tz) ==
  LET hasConfig == HasConfig(obligation.formCode)
      config == FILING_DEADLINES[obligation.formCode]
      quarterly ==
        IF obligation.frequency = "quarterly" /\ hasConfig
          THEN [i \in 1..Len(Deadline_quarters) |->
                  LET quarter == Deadline_quarters[i]
                      deadlineConfig == config.quarterDeadlines[quarter]
                  IN  Deadline(obligation,
                               ToISODateString(
                                 Deadline_calculateDueDate(input.taxYear, deadlineConfig.month,
                                                           deadlineConfig.day, quarter), tz),
                               <<quarter, input.taxYear>>,
                               <<30, 14, 7, 3, 1>>)]
          ELSE << >>
      annualConfig ==
        IF hasConfig /\ config.hasAnnualDeadline THEN config.annualDeadline
        ELSE [month |-> 4, day |-> 15]
      annual ==
        IF obligation.frequency = "annual" \/ (hasConfig /\ config.hasAnnualDeadline)
          THEN << Deadline(obligation,
                           ToISODateString(
                             Deadline_calculateDueDate(input.taxYear + 1, annualConfig.month,
                                                       annualConfig.day, "ANNUAL"), tz),
                           <<"Annual", input.taxYear>>,
                           <<60, 30, 14, 7, 3, 1>>) >>
          ELSE << >>
      registrationFee ==
        IF obligation.formCode = "0605"
          THEN << Deadline(obligation,
                           ToISODateString(
                             Deadline_adjustForWeekend(DayNumber(input.taxYear, 1, 31)), tz),
                           <<"", input.taxYear>>,
                           <<30, 14, 7>>) >>
          ELSE << >>
      registration ==
        IF obligation.formCode = "1901"
          THEN << Deadline(obligation, ASAP, <<"Before business starts", 0>>, << >>) >>
          ELSE << >>
  IN  quarterly \o annual \o registrationFee \o registration

RECURSIVE Deadline_forAll(_, _, _)
Deadline_forAll(input, obligations, tz) ==
  IF obligations = << >> THEN << >>
  ELSE Deadline_forObligation(input, Head(obligations), tz)
         \o Deadline_forAll(input, Tail(obligations), tz)

\* The comparator of the final sort: negative puts a first.
\* The comparator without the ASAP branches: the time of 'ASAP' is NaN and
\* a NaN result counts as 0.
Deadline_compareWithoutSentinel(a, b) ==
  IF a.dueDate = ASAP \/ b.dueDate = ASAP THEN 0
  ELSE ParseISODate(a.dueDate) - ParseISODate(b.dueDate)

Deadline_compare(a, b) ==
  IF a.dueDate = ASAP THEN -1
  ELSE IF b.dueDate = ASAP THEN 1
  ELSE ParseISODate(a.dueDate) - ParseISODate(b.dueDate)

\* Array.prototype.sort is a stable insertion sort on arrays this short: an
\* element moves left past every element it compares negative against.
RECURSIVE InsertSorted(_, _)
InsertSorted(sorted, x) ==
  IF sorted = << >> THEN << x >>
  ELSE LET last == sorted[Len(sorted)] IN
       IF Deadline_compare(x, last) < 0
         THEN Append(InsertSorted(SubSeq(sorted, 1, Len(sorted) - 1), x), last)
         ELSE Append(sorted, x)

RECURSIVE SortDeadlines(_, _)
SortDeadlines(sorted, rest) ==
  IF rest = << >> THEN sorted
  ELSE SortDeadlines(InsertSorted(sorted, Head(rest)), Tail(rest))

\* The rule without the filter on isApplicable.
Deadline_executeForAllObligations(input, obligations, tz, call) ==
  SortDeadlines(<< >>, NumberIds(Deadline_forAll(input, obligations, tz), "DL",
                                 Deadline_deadlineCounter(call)))

Deadline_execute(input, obligations, tz, call) ==
  LET applicable == SelectSeq(obligations, LAMBDA o : o.isApplicable)
      deadlines == NumberIds(Deadline_forAll(input, applicable, tz), "DL",
                             Deadline_deadlineCounter(call))
  IN  SortDeadlines(<< >>, deadlines)

(***************************************************************************)
(* RiskAssessmentRule (rules/risk-assessment.rule.ts)                      *)
(***************************************************************************)
\* let flagCounter = 1, for the call that runs the rule
Risk_flagCounter(call) == 1

RiskFlag(level, code) ==
  [id |-> <<"RISK", 0>>, level |-> level, code |-> code, ruleModuleId |-> "RISK_ASSESSMENT"]

\* VAT_THRESHOLD * 0.8
Risk_approachingVatFloor == Times(VAT_THRESHOLD, [num |-> 4, den |-> 5])

\* The business income with the employment streams left in.
Risk_businessIncomeWithEmployment(input) == SumGross(input.incomeStreams)

\* const businessIncome of the registration check
Risk_businessIncome(input) ==
  SumGross(SelectSeq(input.incomeStreams, LAMBDA s : s.incomeType # EMPLOYMENT))

\* The test with any deductible expense counting as high.
Risk_anyExpenseRatio(totalDeductions, totalGrossReceipts) ==
  totalGrossReceipts > 0 /\ totalDeductions > 0

\* expenseRatio > 0.5, the ratio being 0 when there are no gross receipts.
Risk_highExpenseRatio(totalDeductions, totalGrossReceipts) ==
  /\ totalGrossReceipts > 0
  /\ RatioGreater(totalDeductions, totalGrossReceipts, [num |-> 1, den |-> 2])

Risk_execute(input, call) ==
  LET totalGrossReceipts ==
        SumGross(SelectSeq(input.incomeStreams, LAMBDA s : s.incomeType # EMPLOYMENT))
      streamsWithWithholding == SelectSeq(input.incomeStreams, LAMBDA s : s.hasWithholding)
      streamsWithout2307 == SelectSeq(streamsWithWithholding, LAMBDA s : ~s.form2307Received)
      totalWithheld == SumWithheld(streamsWithWithholding)
      totalDeductions == SumAmount(SelectSeq(input.expenses, LAMBDA e : e.isDeductible))
      unregistered ==
        IF input.registrationStatus = NOT_REGISTERED /\ Risk_businessIncome(input) > 0
          THEN << RiskFlag(CPA_REVIEW_REQUIRED, "UNREG_WITH_INCOME") >> ELSE << >>
      needsUpdate ==
        IF input.registrationStatus = NEEDS_UPDATE
          THEN << RiskFlag(WARNING, "REG_NEEDS_UPDATE") >> ELSE << >>
      approachingVat ==
        IF totalGrossReceipts >= Risk_approachingVatFloor /\ totalGrossReceipts < VAT_THRESHOLD
          THEN << RiskFlag(WARNING, "APPROACHING_VAT_THRESHOLD") >> ELSE << >>
      exceedsVat ==
        IF totalGrossReceipts > VAT_THRESHOLD
          THEN << RiskFlag(CPA_REVIEW_REQUIRED, "EXCEEDS_VAT_THRESHOLD") >> ELSE << >>
      missing2307 ==
        IF Len(streamsWithout2307) > 0
          THEN << RiskFlag(WARNING, "MISSING_2307") >> ELSE << >>
      highWithholding ==
        IF totalGrossReceipts > 0
           /\ RatioGreater(totalWithheld, totalGrossReceipts, [num |-> 3, den |-> 20])
           /\ totalWithheld > 50000 * Peso
          THEN << RiskFlag(INFO, "HIGH_WITHHOLDING") >> ELSE << >>
      regimeNotSelected ==
        IF input.selectedRegime = UNDETERMINED
          THEN << RiskFlag(WARNING, "REGIME_NOT_SELECTED") >> ELSE << >>
      highExpenses ==
        IF input.selectedRegime = EIGHT_PERCENT_FLAT
           /\ Risk_highExpenseRatio(totalDeductions, totalGrossReceipts)
          THEN << RiskFlag(INFO, "8PCT_HIGH_EXPENSES") >> ELSE << >>
      noIncome ==
        IF Len(input.incomeStreams) = 0
          THEN << RiskFlag(WARNING, "NO_INCOME_RECORDED") >> ELSE << >>
      mixedNoEmployment ==
        IF input.userType = MIXED_INCOME /\ ~input.hasEmploymentIncome
           /\ ~Some(SelectSeq(input.incomeStreams, LAMBDA s : s.incomeType = EMPLOYMENT))
          THEN << RiskFlag(WARNING, "MIXED_NO_EMPLOYMENT") >> ELSE << >>
      largeIncomeNoDocs ==
        IF totalGrossReceipts > 500000 * Peso
           /\ ~Some(SelectSeq(input.incomeStreams, LAMBDA s : s.form2307Received \/ s.hasWithholding))
          THEN << RiskFlag(INFO, "LARGE_INCOME_NO_DOCS") >> ELSE << >>
      expenseDocs ==
        IF input.selectedRegime = GRADUATED_RATES /\ Len(input.expenses) > 0
          THEN << RiskFlag(INFO, "EXPENSE_DOCS_REMINDER") >> ELSE << >>
  IN  NumberIds(unregistered \o needsUpdate \o approachingVat \o exceedsVat \o missing2307
                  \o highWithholding \o regimeNotSelected \o highExpenses \o noIncome
                  \o mixedNoEmployment \o largeIncomeNoDocs \o expenseDocs,
                "RISK", Risk_flagCounter(call))

(***************************************************************************)
(* RulesEngineService (rules-engine.service.ts)                            *)
(***************************************************************************)
VERSION == "1.0.0"

\* The completeness with a warning weighed like a missing field.
Service_completenessFullWeightWarnings(in) ==
  LET missing == (IF in.tin = Undefined THEN << "TIN (Tax Identification Number)" >> ELSE << >>)
                   \o (IF Len(in.incomeStreams) = 0 THEN << "Income streams" >> ELSE << >>)
      warnings ==
        (IF in.selectedRegime = UNDETERMINED
           THEN << "Tax regime not selected - using recommended regime" >> ELSE << >>)
          \o (IF Some(SelectSeq(in.incomeStreams, LAMBDA s : s.hasWithholding /\ ~s.form2307Received))
                THEN << "Some withholding taxes lack Form 2307 documentation" >> ELSE << >>)
  IN  [score |-> Max(0, 100 - 10 * Len(missing) - 10 * Len(warnings)),
       missingFields |-> missing, warnings |-> warnings]

Service_assessCompleteness(in) ==
  LET missingTin == IF in.tin = Undefined THEN << "TIN (Tax Identification Number)" >> ELSE << >>
      missingStreams == IF Len(in.incomeStreams) = 0 THEN << "Income streams" >> ELSE << >>
      missingFields == missingTin \o missingStreams
      regimeWarning ==
        IF in.selectedRegime = UNDETERMINED
          THEN << "Tax regime not selected - using recommended regime" >> ELSE << >>
      hasWithholdingWithout2307 ==
        Some(SelectSeq(in.incomeStreams, LAMBDA s : s.hasWithholding /\ ~s.form2307Received))
      documentationWarning ==
        IF hasWithholdingWithout2307
          THEN << "Some withholding taxes lack Form 2307 documentation" >> ELSE << >>
      warnings == regimeWarning \o documentationWarning
      totalChecks == 10
      \* passedChecks / totalChecks * 100, in whole points: the halves of
      \* passedChecks become fives
      passedTenths == totalChecks * 10 - Len(missingFields) * 10 - Len(warnings) * 5
      score == Max(0, Min(100, (passedTenths * 100) \div (totalChecks * 10)))
  IN  [score |-> score, missingFields |-> missingFields, warnings |-> warnings]

\* The locals of one invocation before its first statement.
NewCall ==
  [pc |-> "start",
   stepNumber |-> 1,
   reasoningSteps |-> << >>,
   regimeComparison |-> << >>,
   effectiveRegime |-> Undefined,
   effectiveInput |-> << >>,
   computedValues |-> << >>,
   obligations |-> << >>,
   deadlines |-> << >>,
   riskFlags |-> << >>,
   output |-> << >>]

\* An invocation slot that the run does not use.
NoCall == [NewCall EXCEPT !.pc = "unused"]

\* A step pushed with the counter read but not advanced.
ReasoningStepUnnumbered(call, ruleModuleId, in, out) ==
  [stepNumber |-> 1, ruleModuleId |-> ruleModuleId,
   ruleModuleVersion |-> "1.0.0", input |-> in, output |-> out]

ReasoningStep(call, ruleModuleId, in, out) ==
  [stepNumber |-> call.stepNumber, ruleModuleId |-> ruleModuleId,
   ruleModuleVersion |-> "1.0.0", input |-> in, output |-> out]

\* Step 1: Regime Determination
RunRegimeDetermination(c) ==
  /\ calls[c].pc = "start"
  /\ LET regimeComparison == Regime_execute(ruleInput)
         step == ReasoningStep(calls[c], "REGIME_DETERMINATION",
                   [userType |-> ruleInput.userType,
                    grossIncome |-> SumGross(ruleInput.incomeStreams),
                    hasEmploymentIncome |-> ruleInput.hasEmploymentIncome],
                   [eligible8Percent |-> regimeComparison.eligible8Percent,
                    recommendation |-> regimeComparison.recommendation])
     IN  calls' = [calls EXCEPT ![c].regimeComparison = regimeComparison,
                                ![c].reasoningSteps = Append(@, step),
                                ![c].stepNumber = @ + 1,
                                ![c].pc = "regime"]
  /\ UNCHANGED <<taxProfile, updates, ruleInput, hostTz, assessmentResults, requests, clock>>

\* ruleInput.selectedRegime !== UNDETERMINED ? ruleInput.selectedRegime : recommendation
Service_effectiveRegime(in, regimeComparison) ==
  IF in.selectedRegime # UNDETERMINED THEN in.selectedRegime
  ELSE regimeComparison.recommendation

ResolveEffectiveRegime(c) ==
  /\ calls[c].pc = "regime"
  /\ LET effectiveRegime == Service_effectiveRegime(ruleInput, calls[c].regimeComparison) IN
     calls' = [calls EXCEPT ![c].effectiveRegime = effectiveRegime,
                            ![c].effectiveInput = [ruleInput EXCEPT !.selectedRegime = effectiveRegime],
                            ![c].pc = "resolved"]
  /\ UNCHANGED <<taxProfile, updates, ruleInput, hostTz, assessmentResults, requests, clock>>

\* Step 2: Tax Computation
RunTaxComputation(c) ==
  /\ calls[c].pc = "resolved"
  /\ LET computedValues == Tax_execute(calls[c].effectiveInput)
         step == ReasoningStep(calls[c], "TAX_COMPUTATION",
                   [regime |-> calls[c].effectiveRegime,
                    grossIncome |-> computedValues.grossIncome,
                    deductions |-> computedValues.totalDeductions],
                   [taxableIncome |-> computedValues.taxableIncome,
                    estimatedTax |-> computedValues.estimatedTax,
                    netTaxPayable |-> computedValues.netTaxPayable])
     IN  calls' = [calls EXCEPT ![c].computedValues = computedValues,
                                ![c].reasoningSteps = Append(@, step),
                                ![c].stepNumber = @ + 1,
                                ![c].pc = "computed"]
  /\ UNCHANGED <<taxProfile, updates, ruleInput, hostTz, assessmentResults, requests, clock>>

FormCodes(obligations) == [i \in 1..Len(obligations) |-> obligations[i].formCode]

\* Step 3: Filing Obligations
RunFilingObligations(c) ==
  /\ calls[c].pc = "computed"
  /\ LET obligations == Filing_execute(calls[c].effectiveInput, c)
         step == ReasoningStep(calls[c], "FILING_OBLIGATIONS",
                   [userType |-> ruleInput.userType,
                    regime |-> calls[c].effectiveRegime,
                    hasEmploymentIncome |-> ruleInput.hasEmploymentIncome],
                   [applicableObligations |->
                      FormCodes(SelectSeq(obligations, LAMBDA o : o.isApplicable)),
                    totalObligations |-> Len(obligations)])
     IN  calls' = [calls EXCEPT ![c].obligations = obligations,
                                ![c].reasoningSteps = Append(@, step),
                                ![c].stepNumber = @ + 1,
                                ![c].pc = "obligations"]
  /\ UNCHANGED <<taxProfile, updates, ruleInput, hostTz, assessmentResults, requests, clock>>

\* Step 4: Deadline Calculation
RunDeadlineCalculation(c) ==
  /\ calls[c].pc = "obligations"
  /\ LET deadlines == Deadline_execute(calls[c].effectiveInput, calls[c].obligations, hostTz, c)
         step == ReasoningStep(calls[c], "DEADLINE_CALCULATION",
                   [taxYear |-> ruleInput.taxYear,
                    obligations |->
                      FormCodes(SelectSeq(calls[c].obligations, LAMBDA o : o.isApplicable))],
                   [totalDeadlines |-> Len(deadlines),
                    nextDeadline |-> IF Len(deadlines) > 0 THEN deadlines[1].dueDate ELSE ASAP])
     IN  calls' = [calls EXCEPT ![c].deadlines = deadlines,
                                ![c].reasoningSteps = Append(@, step),
                                ![c].stepNumber = @ + 1,
                                ![c].pc = "deadlines"]
  /\ UNCHANGED <<taxProfile, updates, ruleInput, hostTz, assessmentResults, requests, clock>>

\* Step 5: Risk Assessment, then the reasoning receipt and the output
RunRiskAssessment(c) ==
  /\ calls[c].pc = "deadlines"
  /\ LET riskFlags == Risk_execute(calls[c].effectiveInput, c)
         step == ReasoningStep(calls[c], "RISK_ASSESSMENT",
                   [registrationStatus |-> ruleInput.registrationStatus,
                    totalIncome |-> calls[c].computedValues.grossIncome,
                    hasWithholding |-> Some(SelectSeq(ruleInput.incomeStreams, LAMBDA s : s.hasWithholding))],
                   [totalFlags |-> Len(riskFlags),
                    criticalFlags |->
                      Len(SelectSeq(riskFlags, LAMBDA f : f.level = CPA_REVIEW_REQUIRED)),
                    warningFlags |-> Len(SelectSeq(riskFlags, LAMBDA f : f.level = WARNING))])
         reasoningSteps == Append(calls[c].reasoningSteps, step)
         reasoningReceipt ==
           [steps |-> reasoningSteps,
            explanationIds |->
              [i \in 1..Len(reasoningSteps) |->
                 <<reasoningSteps[i].ruleModuleId, reasoningSteps[i].ruleModuleVersion>>],
            completeness |-> Service_assessCompleteness(ruleInput)]
         output ==
           [recommendedRegime |-> calls[c].effectiveRegime,
            regimeComparison |-> calls[c].regimeComparison,
            computedValues |-> calls[c].computedValues,
            obligations |-> calls[c].obligations,
            deadlines |-> calls[c].deadlines,
            riskFlags |-> riskFlags,
            reasoningReceipt |-> reasoningReceipt,
            rulesEngineVersion |-> VERSION]
     IN  calls' = [calls EXCEPT ![c].riskFlags = riskFlags,
                                ![c].reasoningSteps = reasoningSteps,
                                ![c].stepNumber = @ + 1,
                                ![c].output = output,
                                ![c].pc = "done"]
  /\ UNCHANGED <<taxProfile, updates, ruleInput, hostTz, assessmentResults, requests, clock>>

RunAssessment(c) ==
  \/ RunRegimeDetermination(c)
  \/ ResolveEffectiveRegime(c)
  \/ RunTaxComputation(c)
  \/ RunFilingObligations(c)
  \/ RunDeadlineCalculation(c)
  \/ RunRiskAssessment(c)

(***************************************************************************)
(* Bounds and the inputs of the model                                      *)
(***************************************************************************)
\* Invocations of runAssessment in flight on the one engine instance.
NumCalls == 2
\* Income streams of one RuleInput.
MaxStreams == 2
\* How many entries of the amount table below are used.
NumGrossAmounts == 4
\* Tax years MinTaxYear .. MinTaxYear + NumYears - 1.
NumYears == 4

\* @Min(2018) of CreateTaxProfileDto.taxYear
MinTaxYear == 2018

Calls == 1..NumCalls

\* Declared amounts, in pesos.
GrossAmountTable == <<300000, 500000, 1000000, 3000000, 3500000>>

GrossAmounts == {GrossAmountTable[i] * Peso : i \in 1..NumGrossAmounts}

TaxYears == MinTaxYear..(MinTaxYear + NumYears - 1)

\* Hosts west of, at and east of UTC (Manila is UTC+8).
TzOffsets == {-480, 0, 480}

NoWithholding == [hasWithholding |-> FALSE, withheldAmount |-> NoAmount, form2307Received |-> FALSE]
WithheldWithCertificate ==
  [hasWithholding |-> TRUE, withheldAmount |-> 50000 * Peso, form2307Received |-> TRUE]
WithheldNoCertificate ==
  [hasWithholding |-> TRUE, withheldAmount |-> NoAmount, form2307Received |-> FALSE]
\* An amount entered on a stream that is not marked as subject to withholding.
AmountWithoutFlag ==
  [hasWithholding |-> FALSE, withheldAmount |-> 50000 * Peso, form2307Received |-> FALSE]

Stream(incomeType, grossAmount, w) ==
  [incomeType |-> incomeType, grossAmount |-> grossAmount,
   hasWithholding |-> w.hasWithholding, withheldAmount |-> w.withheldAmount,
   form2307Received |-> w.form2307Received]

Expense(amount, isDeductible) == [amount |-> amount, isDeductible |-> isDeductible]

\* All sequences over S of length at most n.
SeqsUpTo(S, n) == UNION {[1..k -> S] : k \in 0..n}

RuleInputs(years, userTypes, statuses, employment, regimes, tins, streams, expenses) ==
  [taxYear : years, userType : userTypes, registrationStatus : statuses,
   hasEmploymentIncome : employment, incomeStreams : streams, expenses : expenses,
   selectedRegime : regimes, tin : tins]

SelectableRegimes == TaxRegime \cup {Undefined}

\* Inputs that vary the declared amounts.
TaxStreams ==
  {Stream(FREELANCE_SERVICE, g, NoWithholding) : g \in GrossAmounts}
    \cup {Stream(FREELANCE_SERVICE, 300000 * Peso, w) :
            w \in {WithheldWithCertificate, AmountWithoutFlag}}
    \cup {Stream(EMPLOYMENT, 500000 * Peso, WithheldWithCertificate)}

\* The expense lists: none, one deductible expense, and a deductible expense
\* next to one that is not.
TaxExpenses ==
  { << >>,
    << Expense(250000 * Peso, TRUE) >>,
    << Expense(600000 * Peso, TRUE) >>,
    << Expense(1000000 * Peso, TRUE) >>,
    << Expense(250000 * Peso, TRUE), Expense(600000 * Peso, FALSE) >> }

TaxInputs ==
  {in \in RuleInputs({MinTaxYear + NumYears - 1}, UserType, {REGISTERED}, BOOLEAN,
                     SelectableRegimes, {"123-456-789-000"},
                     SeqsUpTo(TaxStreams, MaxStreams), TaxExpenses) :
     in.hasEmploymentIncome = Some(SelectSeq(in.incomeStreams, LAMBDA s : s.incomeType = EMPLOYMENT))}

\* The inputs of the rule's documented examples: 500,000 or 600,000 a year
\* with 50,000 or 150,000 in expenses.
ExampleInputs ==
  RuleInputs({MinTaxYear + NumYears - 1}, UserType, {REGISTERED}, {FALSE},
             SelectableRegimes, {"123-456-789-000"},
             {<< Stream(FREELANCE_SERVICE, 500000 * Peso, NoWithholding) >>,
              << Stream(FREELANCE_SERVICE, 600000 * Peso, NoWithholding) >>},
             {<< Expense(50000 * Peso, TRUE) >>,
              << Expense(150000 * Peso, TRUE) >>,
              << Expense(50000 * Peso, FALSE) >>})

\* Inputs that vary the taxpayer's profile and the tax year.
FilingStreams ==
  { << >>,
    << Stream(FREELANCE_SERVICE, 500000 * Peso, WithheldNoCertificate) >>,
    << Stream(EMPLOYMENT, 500000 * Peso, NoWithholding) >> }

FilingInputs ==
  RuleInputs(TaxYears, UserType, RegistrationStatus, BOOLEAN, SelectableRegimes,
             {Undefined, "123-456-789-000"}, FilingStreams, {<< >>})

\* Inputs of the invocations that share the engine.
SharedInputs ==
  RuleInputs({MinTaxYear + NumYears - 1}, UserType, {NOT_REGISTERED, REGISTERED}, {FALSE},
             SelectableRegimes, {Undefined}, FilingStreams, {<< >>})

(***************************************************************************)
(* AssessmentService (assessment/assessment.service.ts)                    *)
(***************************************************************************)
\* Rows the assessmentResult table may hold.
MaxResults == 3
\* Tax profiles in the taxProfile table.
NumProfiles == 2

TaxProfileIds == 1..NumProfiles
UserIds == {"user-1", "user-2"}

\* taxProfile.userId: every profile belongs to user-1, user-2 owns none.
TaxProfile_userId(taxProfileId) == "user-1"

\* The data of the stored profiles, as the RuleInput built from it: the
\* selectedRegime column always holds a TaxRegime.
ProfileInputs ==
  RuleInputs({MinTaxYear}, {FREELANCER}, {REGISTERED}, {FALSE},
             {UNDETERMINED, EIGHT_PERCENT_FLAT}, {Undefined},
             {<< Stream(FREELANCE_SERVICE, 500000 * Peso, WithheldNoCertificate) >>}, {<< >>})

NoRequest ==
  [pc |-> "idle", userId |-> "", taxProfileId |-> 0, assessmentOutput |-> << >>,
   previousAssessment |-> 0, newVersion |-> 0, result |-> 0,
   resultsAtCall |-> << >>]

\* A call that has not returned or thrown yet.
InFlight == {"findProfile", "markStale", "engine", "findPrevious", "create", "update"}

\* The rows of one profile, by id.
ResultsOf(taxProfileId) ==
  {i \in 1..Len(assessmentResults) : assessmentResults[i].taxProfileId = taxProfileId}

\* runAssessment(userId, taxProfileId) is called; taxProfile.findFirst is awaited.
Assessment_Begin(r) ==
  /\ requests[r].pc = "idle"
  /\ Len(assessmentResults) + Cardinality({q \in DOMAIN requests : requests[q].pc \in InFlight})
       < MaxResults
  /\ \E userId \in UserIds, taxProfileId \in TaxProfileIds :
       requests' = [requests EXCEPT ![r] = [NoRequest EXCEPT !.pc = "findProfile",
                                                            !.userId = userId,
                                                            !.taxProfileId = taxProfileId,
                                                            !.resultsAtCall = assessmentResults]]
  /\ UNCHANGED <<taxProfile, updates, ruleInput, hostTz, calls, assessmentResults, clock>>

\* taxProfile.findFirst({where: {id, userId}}) answers: NotFoundException
\* without a profile, else updateMany is awaited.
Assessment_FindProfile(r) ==
  /\ requests[r].pc = "findProfile"
  /\ requests' =
       IF TaxProfile_userId(requests[r].taxProfileId) = requests[r].userId
         THEN [requests EXCEPT ![r].pc = "markStale"]
         ELSE [requests EXCEPT ![r].pc = "notFound", ![r].resultsAtCall = << >>]
  /\ UNCHANGED <<taxProfile, updates, ruleInput, hostTz, calls, assessmentResults, clock>>

\* The step with an updateMany that matches no row.
Assessment_MarkStaleNoRows(r) ==
  /\ requests[r].pc = "markStale"
  /\ calls' = [calls EXCEPT ![r] = NewCall]
  /\ requests' = [requests EXCEPT ![r].pc = "engine"]
  /\ UNCHANGED <<taxProfile, updates, ruleInput, hostTz, assessmentResults, clock>>

\* assessmentResult.updateMany({where: {taxProfileId, isStale: false},
\* data: {isStale: true}}), then the RuleInput is built and the engine called.
Assessment_MarkStale(r) ==
  /\ requests[r].pc = "markStale"
  /\ assessmentResults' =
       [i \in 1..Len(assessmentResults) |->
          IF assessmentResults[i].taxProfileId = requests[r].taxProfileId
             /\ ~assessmentResults[i].isStale
            THEN [assessmentResults[i] EXCEPT !.isStale = TRUE]
            ELSE assessmentResults[i]]
  /\ calls' = [calls EXCEPT ![r] = NewCall]
  /\ requests' = [requests EXCEPT ![r].pc = "engine"]
  /\ UNCHANGED <<taxProfile, updates, ruleInput, hostTz, clock>>

\* const assessmentOutput = await this.rulesEngine.runAssessment(ruleInput);
\* assessmentResult.findFirst is awaited.
Assessment_EngineReturns(r) ==
  /\ requests[r].pc = "engine"
  /\ calls[r].pc = "done"
  /\ requests' = [requests EXCEPT ![r].assessmentOutput = calls[r].output,
                                  ![r].resultsAtCall = << >>,
                                  ![r].pc = "findPrevious"]
  /\ calls' = [calls EXCEPT ![r] = NoCall]
  /\ UNCHANGED <<taxProfile, updates, ruleInput, hostTz, assessmentResults, clock>>

\* assessmentResult.findFirst({where: {taxProfileId}, orderBy: {version:
\* 'desc'}}): a row of the highest version, or null (0).
Assessment_FindPrevious(r) ==
  /\ requests[r].pc = "findPrevious"
  /\ LET own == ResultsOf(requests[r].taxProfileId)
         highest == {i \in own : \A j \in own :
                                   assessmentResults[j].version <= assessmentResults[i].version}
     IN  \E previousAssessment \in (IF own = {} THEN {0} ELSE highest) :
           requests' = [requests EXCEPT
             ![r].previousAssessment = previousAssessment,
             ![r].newVersion =
               (IF previousAssessment = 0 THEN 0
                ELSE assessmentResults[previousAssessment].version) + 1,
             ![r].pc = "create"]
  /\ UNCHANGED <<taxProfile, updates, ruleInput, hostTz, calls, assessmentResults, clock>>

\* assessmentResult.create({data: {...}}); with a previous assessment its
\* update is awaited, without one the result is returned.
Assessment_Create(r) ==
  /\ requests[r].pc = "create"
  /\ \E assessedAt \in {clock, clock + 1} :
       /\ clock' = assessedAt
       /\ assessmentResults' = Append(assessmentResults,
            [id |-> Len(assessmentResults) + 1,
             taxProfileId |-> requests[r].taxProfileId,
             version |-> requests[r].newVersion,
             rulesEngineVersion |-> requests[r].assessmentOutput.rulesEngineVersion,
             recommendedRegime |-> requests[r].assessmentOutput.recommendedRegime,
             regimeComparison |-> requests[r].assessmentOutput.regimeComparison,
             computedValues |-> requests[r].assessmentOutput.computedValues,
             obligations |-> requests[r].assessmentOutput.obligations,
             deadlines |-> requests[r].assessmentOutput.deadlines,
             riskFlags |-> requests[r].assessmentOutput.riskFlags,
             reasoningReceipt |-> requests[r].assessmentOutput.reasoningReceipt,
             isStale |-> FALSE,
             supersededBy |-> 0,
             assessedAt |-> assessedAt])
  /\ requests' = [requests EXCEPT
       ![r].result = Len(assessmentResults) + 1,
       ![r].pc = IF requests[r].previousAssessment # 0 THEN "update" ELSE "returned"]
  /\ UNCHANGED <<taxProfile, updates, ruleInput, hostTz, calls>>

\* assessmentResult.update({where: {id: previousAssessment.id}, data:
\* {supersededBy: result.id}}); the result is returned.
Assessment_UpdatePrevious(r) ==
  /\ requests[r].pc = "update"
  /\ assessmentResults' =
       [assessmentResults EXCEPT ![requests[r].previousAssessment].supersededBy =
                                    requests[r].result]
  /\ requests' = [requests EXCEPT ![r].pc = "returned"]
  /\ UNCHANGED <<taxProfile, updates, ruleInput, hostTz, calls, clock>>

\* The awaited database operation rejects: the call throws where it stands.
Assessment_Reject(r) ==
  /\ requests[r].pc \in InFlight \ {"engine"}
  /\ requests' = [requests EXCEPT ![r].pc = "failed", ![r].resultsAtCall = << >>]
  /\ UNCHANGED <<taxProfile, updates, ruleInput, hostTz, calls, assessmentResults, clock>>

\* The engine throws: runAssessment has no try around the call, the error
\* goes to the caller.
Assessment_EngineRaises(r) ==
  /\ requests[r].pc = "engine"
  /\ requests' = [requests EXCEPT ![r].pc = "engineError"]
  /\ calls' = [calls EXCEPT ![r] = NoCall]
  /\ UNCHANGED <<taxProfile, updates, ruleInput, hostTz, assessmentResults, clock>>

\* The caller has the result or the error of a finished call.
Assessment_Release(r) ==
  /\ requests[r].pc \in {"returned", "notFound", "failed", "engineError"}
  /\ requests' = [requests EXCEPT ![r] = NoRequest]
  /\ calls' = [calls EXCEPT ![r] = NoCall]
  /\ UNCHANGED <<taxProfile, updates, ruleInput, hostTz, assessmentResults, clock>>

\* getLatestAssessment(userId, taxProfileId): the rows findFirst({where:
\* {taxProfileId, isStale: false}, orderBy: {assessedAt: 'desc'}}) may
\* answer; none is null.
Assessment_getLatestAssessment(userId, taxProfileId) ==
  LET current == {i \in ResultsOf(taxProfileId) : ~assessmentResults[i].isStale} IN
  IF TaxProfile_userId(taxProfileId) # userId THEN {"NotFoundException"}
  ELSE {i \in current : \A j \in current :
                          assessmentResults[j].assessedAt <= assessmentResults[i].assessedAt}

(***************************************************************************)
(* AILayerService (ai-layer/ai-layer.service.ts)                           *)
(***************************************************************************)
\* `MISSING_${field.replace(/\s/g, '_').toUpperCase()}`
AILayer_missingFieldId(field) ==
  IF field = "TIN (Tax Identification Number)" THEN "MISSING_TIN_(TAX_IDENTIFICATION_NUMBER)"
  ELSE IF field = "Income streams" THEN "MISSING_INCOME_STREAMS"
  ELSE "MISSING_"

\* The question ids a WARNING flag adds.
AILayer_flagQuestions(flag) ==
  (IF flag.code = "REGIME_NOT_SELECTED" THEN << "REGIME_SELECTION" >> ELSE << >>)
    \o (IF flag.code = "MISSING_2307" THEN << "FORM_2307_FOLLOWUP" >> ELSE << >>)

RECURSIVE AILayer_allFlagQuestions(_)
AILayer_allFlagQuestions(flags) ==
  IF flags = << >> THEN << >>
  ELSE AILayer_flagQuestions(Head(flags)) \o AILayer_allFlagQuestions(Tail(flags))

\* The ids of the questions generateClarifyingQuestions returns for a stored
\* assessment.
AILayer_generateClarifyingQuestions(assessment) ==
  LET receipt == assessment.reasoningReceipt
      missing ==
        IF receipt.completeness.score < 70
          THEN [i \in 1..Len(receipt.completeness.missingFields) |->
                  AILayer_missingFieldId(receipt.completeness.missingFields[i])]
          ELSE << >>
  IN  missing \o AILayer_allFlagQuestions(
                   SelectSeq(assessment.riskFlags, LAMBDA f : f.level = WARNING))

(***************************************************************************)
(* TaxProfileService.update (src/src/tax-profile/tax-profile.service.ts)   *)
(*                                                                         *)
(* update() awaits findOne, tests the lock on the row it read, and then    *)
(* awaits prisma.taxProfile.update: the read and the write are two         *)
(* database operations, and other calls may run between them.              *)
(* regimeLockedAt is 0 for null and a positive time stamp otherwise.       *)
(***************************************************************************)
\* The row that create() stores: the regime of the dto, or UNDETERMINED,
\* and no regimeLockedAt.
CreatedProfile(selectedRegime) ==
  [userId |-> "user-1",
   selectedRegime |-> selectedRegime,
   regimeLockedAt |-> 0,
   businessName |-> Undefined]

\* UpdateTaxProfileDto: every field optional; selectedRegime one of the
\* three enum values when present.
UpdateDtos ==
  [selectedRegime : TaxRegime \cup {Undefined},
   businessName : {Undefined, "Studio A"}]

NoUpdate ==
  [pc |-> "idle", userId |-> "", dto |-> << >>, updateData |-> << >>]

\* update(userId, profileId, dto) is called.
TaxProfile_updateCalled(u) ==
  /\ updates[u].pc = "idle"
  /\ \E userId \in UserIds, dto \in UpdateDtos :
       updates' = [updates EXCEPT ![u] =
         [pc |-> "findOne", userId |-> userId, dto |-> dto, updateData |-> << >>]]
  /\ UNCHANGED <<ruleInput, hostTz, calls, assessmentResults, requests, clock,
                 taxProfile>>

\* updateData = { ...dto }, plus regimeLockedAt = new Date() when a regime
\* other than UNDETERMINED is set on a profile read as not locked.
TaxProfile_updateData(profile, dto, now) ==
  [selectedRegime |-> dto.selectedRegime,
   businessName |-> dto.businessName,
   regimeLockedAt |->
     IF /\ dto.selectedRegime # Undefined
        /\ dto.selectedRegime # UNDETERMINED
        /\ profile.regimeLockedAt = 0
     THEN now ELSE 0]

\* findOne resolves with the stored row, and the code up to the next await
\* runs: NotFound for another user's profile, BadRequest when the dto
\* carries a selectedRegime and the row read is locked, else the update
\* is issued.
TaxProfile_updateFindOne(u) ==
  /\ updates[u].pc = "findOne"
  /\ LET profile == taxProfile
         dto == updates[u].dto
         updateData == TaxProfile_updateData(profile, dto, clock + 1) IN
     IF profile.userId # updates[u].userId
     THEN /\ updates' = [updates EXCEPT ![u].pc = "NotFoundException"]
          /\ UNCHANGED clock
     ELSE IF dto.selectedRegime # Undefined /\ profile.regimeLockedAt # 0
     THEN /\ updates' = [updates EXCEPT ![u].pc = "BadRequestException"]
          /\ UNCHANGED clock
     ELSE /\ updates' = [updates EXCEPT ![u].pc = "update",
                                        ![u].updateData = updateData]
          /\ clock' = IF updateData.regimeLockedAt # 0 THEN clock + 1 ELSE clock
  /\ UNCHANGED <<ruleInput, hostTz, calls, assessmentResults, requests,
                 taxProfile>>

\* prisma.taxProfile.update({ where: { id }, data }): a field that data
\* does not carry keeps its stored value (no key regimeLockedAt is data's
\* regimeLockedAt 0 here).
Prisma_update(row, data) ==
  [userId |-> row.userId,
   selectedRegime |->
     IF data.selectedRegime # Undefined THEN data.selectedRegime
     ELSE row.selectedRegime,
   regimeLockedAt |->
     IF data.regimeLockedAt # 0 THEN data.regimeLockedAt
     ELSE row.regimeLockedAt,
   businessName |->
     IF data.businessName # Undefined THEN data.businessName
     ELSE row.businessName]

\* The database applies the update and the call returns the row.
TaxProfile_updateWrite(u) ==
  /\ updates[u].pc = "update"
  /\ taxProfile' = Prisma_update(taxProfile, updates[u].updateData)
  /\ updates' = [updates EXCEPT ![u].pc = "returned"]
  /\ UNCHANGED <<ruleInput, hostTz, calls, assessmentResults, requests, clock>>

\* The caller has the result or the exception; the call is over.
TaxProfile_updateRelease(u) ==
  /\ updates[u].pc \in {"returned", "NotFoundException", "BadRequestException"}
  /\ updates' = [updates EXCEPT ![u] = NoUpdate]
  /\ UNCHANGED <<ruleInput, hostTz, calls, assessmentResults, requests, clock,
                 taxProfile>>

(***************************************************************************)
(* Specifications                                                          *)
(***************************************************************************)
\* One invocation, over the inputs that vary the amounts.
Init ==
  /\ ruleInput \in TaxInputs
  /\ hostTz = 0
  /\ calls = [c \in Calls |-> IF c = 1 THEN NewCall ELSE NoCall]
  /\ assessmentResults = << >>
  /\ requests = [r \in Calls |-> NoRequest]
  /\ clock = 0
  /\ taxProfile = CreatedProfile(UNDETERMINED)
  /\ updates = [u \in Calls |-> NoUpdate]

\* One invocation, over the inputs that vary profile, tax year and host.
InitFiling ==
  /\ ruleInput \in FilingInputs
  /\ hostTz \in TzOffsets
  /\ calls = [c \in Calls |-> IF c = 1 THEN NewCall ELSE NoCall]
  /\ assessmentResults = << >>
  /\ requests = [r \in Calls |-> NoRequest]
  /\ clock = 0
  /\ taxProfile = CreatedProfile(UNDETERMINED)
  /\ updates = [u \in Calls |-> NoUpdate]

\* Several invocations on the same engine instance with the same input.
InitShared ==
  /\ ruleInput \in SharedInputs
  /\ hostTz \in TzOffsets
  /\ calls = [c \in Calls |-> NewCall]
  /\ assessmentResults = << >>
  /\ requests = [r \in Calls |-> NoRequest]
  /\ clock = 0
  /\ taxProfile = CreatedProfile(UNDETERMINED)
  /\ updates = [u \in Calls |-> NoUpdate]

Next == \E c \in Calls : RunAssessment(c)

Spec == Init /\ [][Next]_vars
SpecFiling == InitFiling /\ [][Next]_vars
SpecShared == InitShared /\ [][Next]_vars

\* One invocation, over the inputs of the documented examples.
InitExamples ==
  /\ ruleInput \in ExampleInputs
  /\ hostTz = 0
  /\ calls = [c \in Calls |-> IF c = 1 THEN NewCall ELSE NoCall]
  /\ assessmentResults = << >>
  /\ requests = [r \in Calls |-> NoRequest]
  /\ clock = 0
  /\ taxProfile = CreatedProfile(UNDETERMINED)
  /\ updates = [u \in Calls |-> NoUpdate]

SpecExamples == InitExamples /\ [][Next]_vars

\* Calls of AssessmentService.runAssessment that do not overlap, on an empty
\* assessmentResult table.
InitSequential ==
  /\ ruleInput \in ProfileInputs
  /\ hostTz = 0
  /\ calls = [c \in Calls |-> NoCall]
  /\ assessmentResults = << >>
  /\ requests = [r \in Calls |-> NoRequest]
  /\ clock = 0
  /\ taxProfile = CreatedProfile(UNDETERMINED)
  /\ updates = [u \in Calls |-> NoUpdate]

\* No call is in flight and every earlier call has handed its result over.
NoneOutstanding == \A r \in Calls : requests[r].pc = "idle"

NextSequential ==
  \E r \in Calls :
    \/ NoneOutstanding /\ Assessment_Begin(r)
    \/ Assessment_FindProfile(r)
    \/ Assessment_MarkStale(r)
    \/ requests[r].pc = "engine" /\ RunAssessment(r)
    \/ Assessment_EngineReturns(r)
    \/ Assessment_FindPrevious(r)
    \/ Assessment_Create(r)
    \/ Assessment_UpdatePrevious(r)
    \/ Assessment_Reject(r)
    \/ Assessment_EngineRaises(r)
    \/ Assessment_Release(r)

SpecSequential == InitSequential /\ [][NextSequential]_vars

\* RulesEngineService.runAssessment has no await: once entered it runs to its
\* end before any other call's continuation is scheduled.
EngineIdle == \A r \in Calls : requests[r].pc = "engine" => calls[r].pc = "done"

\* Calls of AssessmentService.runAssessment in any interleaving of their
\* awaits.
NextInterleaved ==
  \E r \in Calls :
    \/ EngineIdle /\ Assessment_Begin(r)
    \/ EngineIdle /\ Assessment_FindProfile(r)
    \/ EngineIdle /\ Assessment_MarkStale(r)
    \/ requests[r].pc = "engine" /\ RunAssessment(r)
    \/ Assessment_EngineReturns(r)
    \/ EngineIdle /\ Assessment_FindPrevious(r)
    \/ EngineIdle /\ Assessment_Create(r)
    \/ EngineIdle /\ Assessment_UpdatePrevious(r)
    \/ EngineIdle /\ Assessment_Reject(r)
    \/ Assessment_EngineRaises(r)
    \/ EngineIdle /\ Assessment_Release(r)

\* The table is empty and the profiles hold one and the same data.
InitInterleaved ==
  /\ InitSequential
  /\ ruleInput.selectedRegime = UNDETERMINED

SpecInterleaved == InitInterleaved /\ [][NextInterleaved]_vars

\* update() calls on one stored profile, from its owner and from another
\* user, their database operations interleaved in any order.
NextProfile ==
  \E u \in Calls :
    \/ TaxProfile_updateCalled(u)
    \/ TaxProfile_updateFindOne(u)
    \/ TaxProfile_updateWrite(u)
    \/ TaxProfile_updateRelease(u)

\* A profile as create() stored it, with any regime of the create dto.
InitProfile ==
  /\ ruleInput \in ProfileInputs
  /\ ruleInput.selectedRegime = UNDETERMINED
  /\ hostTz = 0
  /\ calls = [c \in Calls |-> NoCall]
  /\ assessmentResults = << >>
  /\ requests = [r \in Calls |-> NoRequest]
  /\ clock = 0
  /\ taxProfile \in {CreatedProfile(selectedRegime) : selectedRegime \in TaxRegime}
  /\ updates = [u \in Calls |-> NoUpdate]

SpecProfile == InitProfile /\ [][NextProfile]_vars

(***************************************************************************)
(* Properties                                                              *)
(***************************************************************************)
\* Positions of a call at which the named step has run.
AfterRegime == {"regime", "resolved", "computed", "obligations", "deadlines", "done"}
AfterTax == {"computed", "obligations", "deadlines", "done"}
AfterFiling == {"obligations", "deadlines", "done"}
AfterDeadlines == {"deadlines", "done"}

ConcreteRegimes == {GRADUATED_RATES, EIGHT_PERCENT_FLAT}

\* Business income as the properties word it: the gross amounts of the
\* streams that are not employment.
BusinessIncomeOf(in) ==
  LET streams == in.incomeStreams
      sum[i \in 0..Len(streams)] ==
        IF i = 0 THEN 0
        ELSE sum[i - 1] + (IF streams[i].incomeType # EMPLOYMENT THEN streams[i].grossAmount ELSE 0)
  IN  sum[Len(streams)]

\* The amounts of the expenses marked deductible.
DeductibleExpensesOf(in) ==
  LET expenses == in.expenses
      sum[i \in 0..Len(expenses)] ==
        IF i = 0 THEN 0
        ELSE sum[i - 1] + (IF expenses[i].isDeductible THEN expenses[i].amount ELSE 0)
  IN  sum[Len(expenses)]

\* The withheld amounts of the streams with hasWithholding = true.
WithheldOf(in) ==
  LET streams == in.incomeStreams
      sum[i \in 0..Len(streams)] ==
        IF i = 0 THEN 0
        ELSE sum[i - 1] + (IF streams[i].hasWithholding /\ streams[i].withheldAmount # NoAmount
                             THEN streams[i].withheldAmount ELSE 0)
  IN  sum[Len(streams)]

\* 8% of max(0, businessIncome - 250,000); the amounts are multiples of 25
\* centavos.
FlatTaxOf(businessIncome) ==
  LET above == IF businessIncome > 250000 * Peso THEN businessIncome - 250000 * Peso ELSE 0
  IN  (above \div 25) * 2

C2_EffectiveRegime ==
  \A c \in Calls :
    calls[c].pc = "done" =>
      LET expected == IF ruleInput.selectedRegime \in ConcreteRegimes
                        THEN ruleInput.selectedRegime
                        ELSE calls[c].regimeComparison.recommendation
      IN  /\ calls[c].output.recommendedRegime = expected
          /\ calls[c].effectiveInput.selectedRegime = expected
          /\ calls[c].output.recommendedRegime \in ConcreteRegimes

(***************************************************************************)
(* C3  Eligibility for the 8% option                                       *)
(***************************************************************************)
\* C3: eligible8Percent is true for every Freelancer, SelfEmployed,
\* MicroSmallBusiness or MixedIncome input whose business income is at most
\* 3,000,000 and false whenever business income exceeds 3,000,000.
C3_Eligibility ==
  \A c \in Calls :
    calls[c].pc \in AfterRegime =>
      calls[c].regimeComparison.eligible8Percent
        = (ruleInput.userType \in {FREELANCER, SELF_EMPLOYED, MICRO_SMALL_BUSINESS, MIXED_INCOME}
           /\ BusinessIncomeOf(ruleInput) <= 3000000 * Peso)

C5_NetTaxAndCredits ==
  \A c \in Calls :
    calls[c].pc \in AfterTax =>
      LET cv == calls[c].computedValues
          withheld == WithheldOf(ruleInput)
      IN  /\ cv.creditsApplied = withheld
          /\ cv.netTaxPayable = (IF cv.estimatedTax > cv.creditsApplied
                                   THEN cv.estimatedTax - cv.creditsApplied ELSE 0)
          /\ cv.estimatedTax >= 0
          /\ 0 <= cv.netTaxPayable /\ cv.netTaxPayable <= cv.estimatedTax
          /\ (/\ calls[c].effectiveRegime = EIGHT_PERCENT_FLAT
              /\ cv.grossIncome = 300000 * Peso
              /\ cv.businessIncome = 300000 * Peso
              /\ withheld = 50000 * Peso)
             => (cv.estimatedTax = 4000 * Peso /\ cv.netTaxPayable = 0)

\* The example: 300,000 under the flat regime with 50,000 withheld, the
\* credit larger than the tax.
C5_Witness ==
  \E c \in Calls :
    /\ calls[c].pc \in AfterTax
    /\ calls[c].effectiveRegime = EIGHT_PERCENT_FLAT
    /\ calls[c].computedValues.grossIncome = 300000 * Peso
    /\ calls[c].computedValues.creditsApplied = 50000 * Peso
    /\ calls[c].computedValues.estimatedTax = 4000 * Peso
    /\ calls[c].computedValues.netTaxPayable = 0

(***************************************************************************)
(* C6  Quarterly split                                                     *)
(***************************************************************************)
\* C6: q1 = q2 = q3 = round2(netTaxPayable / 4) and annual =
\* round2(netTaxPayable - 3 * q1), so that q1 + q2 + q3 + annual equals
\* netTaxPayable to the cent.
C6_QuarterlySplit ==
  \A c \in Calls :
    calls[c].pc \in AfterTax =>
      LET cv == calls[c].computedValues
          qp == cv.quarterlyPayments
          quarter == (cv.netTaxPayable + 2) \div 4
      IN  /\ qp.q1 = quarter /\ qp.q2 = quarter /\ qp.q3 = quarter
          /\ qp.annual = cv.netTaxPayable - 3 * quarter
          /\ qp.q1 + qp.q2 + qp.q3 + qp.annual = cv.netTaxPayable

(***************************************************************************)
(* C7  Bracket boundaries                                                  *)
(***************************************************************************)
\* The documented tax of a taxable income at a bracket boundary.
BoundaryTax(taxableIncome) ==
  IF taxableIncome = 250000 * Peso THEN 0
  ELSE IF taxableIncome = 400000 * Peso THEN 22500 * Peso
  ELSE 152500 * Peso

\* C7: in both RegimeDetermination and TaxComputation the graduated bracket
\* table gives tax 0 for a taxable income of 250,000, exactly 22,500 for
\* 400,000 and exactly 152,500 for 1,000,000.
C7_BracketBoundaries ==
  \A c \in Calls :
    calls[c].pc \in AfterTax =>
      LET cv == calls[c].computedValues
          rc == calls[c].regimeComparison
          businessIncome == BusinessIncomeOf(ruleInput)
          deductions == DeductibleExpensesOf(ruleInput)
          osd == (businessIncome \div 5) * 2
          best == IF deductions > osd THEN deductions ELSE osd
          taxable == IF businessIncome > best THEN businessIncome - best ELSE 0
      IN  \A boundary \in {250000 * Peso, 400000 * Peso, 1000000 * Peso} :
            /\ taxable = boundary
                 => rc.comparison.graduatedRates.estimatedTax = BoundaryTax(boundary)
            /\ (calls[c].effectiveRegime # EIGHT_PERCENT_FLAT /\ cv.taxableIncome = boundary)
                 => cv.estimatedTax = BoundaryTax(boundary)

PercentageTaxRecords(obligations) ==
  {i \in 1..Len(obligations) : obligations[i].formCode = "2551Q"}

\* C9 as stated: under the flat regime the obligations list contains a 2551Q
\* record with isApplicable = false, and under the graduated regime it
\* contains a 2551Q record with isApplicable = true.
C9_PercentageTaxAsStated ==
  \A c \in Calls :
    calls[c].pc \in AfterFiling =>
      LET obligations == calls[c].obligations
          records == PercentageTaxRecords(obligations)
      IN  /\ calls[c].effectiveRegime = EIGHT_PERCENT_FLAT
               => \E i \in records : ~obligations[i].isApplicable
          /\ calls[c].effectiveRegime = GRADUATED_RATES
               => \E i \in records : obligations[i].isApplicable

\* C9, amended: under the flat regime the list contains exactly one 2551Q
\* record and it has isApplicable = false; under the graduated regime it
\* contains exactly one 2551Q record, with isApplicable = true, when the
\* user type is Freelancer, SelfEmployed or MicroSmallBusiness, and no 2551Q
\* record at all when the user type is MixedIncome.
C9_PercentageTax ==
  \A c \in Calls :
    calls[c].pc \in AfterFiling =>
      LET obligations == calls[c].obligations
          records == PercentageTaxRecords(obligations)
      IN  /\ calls[c].effectiveRegime = EIGHT_PERCENT_FLAT
               => (Cardinality(records) = 1
                   /\ \A i \in records : ~obligations[i].isApplicable)
          /\ (calls[c].effectiveRegime = GRADUATED_RATES
              /\ ruleInput.userType \in {FREELANCER, SELF_EMPLOYED, MICRO_SMALL_BUSINESS})
               => (Cardinality(records) = 1
                   /\ \A i \in records : obligations[i].isApplicable)
          /\ (calls[c].effectiveRegime = GRADUATED_RATES /\ ruleInput.userType = MIXED_INCOME)
               => records = {}

\* A mixed-income earner under the graduated regime, whose obligations carry
\* the income-tax returns and no 2551Q record.
C9_Witness ==
  \E c \in Calls :
    /\ calls[c].pc \in AfterFiling
    /\ calls[c].effectiveRegime = GRADUATED_RATES
    /\ ruleInput.userType = MIXED_INCOME
    /\ PercentageTaxRecords(calls[c].obligations) = {}
    /\ \E i \in 1..Len(calls[c].obligations) : calls[c].obligations[i].formCode = "1701Q"

(***************************************************************************)
(* C10  Weekend shift                                                      *)
(***************************************************************************)
\* The day a configured date is due once a Saturday or Sunday has been moved
\* to the following Monday.
ShiftedOffWeekend(day) ==
  IF GetDay(day) = 6 THEN day + 2
  ELSE IF GetDay(day) = 0 THEN day + 1
  ELSE day

\* C10: every Deadline with a computed due date falls on Monday to Friday;
\* a configured quarterly date that lands on a Saturday is emitted as the
\* following Monday (+2 days), one that lands on a Sunday as the following
\* Monday (+1 day), and a weekday date is emitted unchanged.
C10_WeekendShift ==
  \A c \in Calls :
    calls[c].pc \in AfterDeadlines =>
      \A i \in 1..Len(calls[c].deadlines) :
        LET deadline == calls[c].deadlines[i]
            emitted == DayNumber(deadline.dueDate.y, deadline.dueDate.m, deadline.dueDate.d)
        IN  ~deadline.dueDate.asap =>
              /\ GetDay(emitted) \in 1..5
              /\ (deadline.formCode \in {"1701Q", "2551Q"} /\ deadline.period[1] \in {"Q1", "Q2", "Q3"})
                   => LET configured ==
                            FILING_DEADLINES[deadline.formCode].quarterDeadlines[deadline.period[1]]
                      IN  emitted = ShiftedOffWeekend(
                                      DayNumber(ruleInput.taxYear, configured.month, configured.day))

(***************************************************************************)
(* C11  Unregistered with income                                           *)
(***************************************************************************)
\* The risk flags of a list that carry the given code, by position.
FlagsCoded(riskFlags, code) == {i \in 1..Len(riskFlags) : riskFlags[i].code = code}

\* C11: with registration status NotRegistered and business income above 0
\* the risk flags contain exactly one flag coded UNREG_WITH_INCOME, of level
\* CpaReviewRequired, whatever other flags fire; with business income 0 or
\* any other registration status the flag is absent.
C11_UnregisteredWithIncome ==
  \A c \in Calls :
    calls[c].pc = "done" =>
      LET riskFlags == calls[c].output.riskFlags
          coded == FlagsCoded(riskFlags, "UNREG_WITH_INCOME")
      IN  IF ruleInput.registrationStatus = NOT_REGISTERED /\ BusinessIncomeOf(ruleInput) > 0
            THEN Cardinality(coded) = 1
                 /\ \A i \in coded : riskFlags[i].level = CPA_REVIEW_REQUIRED
            ELSE coded = {}

\* An unregistered taxpayer with business income whose output carries the
\* flag next to other flags.
C11_Witness ==
  \E c \in Calls :
    /\ calls[c].pc = "done"
    /\ ruleInput.registrationStatus = NOT_REGISTERED
    /\ BusinessIncomeOf(ruleInput) > 0
    /\ FlagsCoded(calls[c].output.riskFlags, "UNREG_WITH_INCOME") # {}
    /\ Len(calls[c].output.riskFlags) >= 3

(***************************************************************************)
(* C12  Pipeline order                                                     *)
(***************************************************************************)
PipelineOrder ==
  << "REGIME_DETERMINATION", "TAX_COMPUTATION", "FILING_OBLIGATIONS",
     "DEADLINE_CALCULATION", "RISK_ASSESSMENT" >>

\* The steps recorded once a call stands at the given position.
StepsRecordedAt(pc) ==
  IF pc = "start" THEN 0
  ELSE IF pc \in {"regime", "resolved"} THEN 1
  ELSE IF pc = "computed" THEN 2
  ELSE IF pc = "obligations" THEN 3
  ELSE IF pc = "deadlines" THEN 4
  ELSE 5

\* C12: the reasoning receipt has exactly five steps, numbered 1 to 5
\* without gaps, with the module ids in the order REGIME_DETERMINATION,
\* TAX_COMPUTATION, FILING_OBLIGATIONS, DEADLINE_CALCULATION,
\* RISK_ASSESSMENT; the effective regime is resolved after step 1 and before
\* step 2, and DeadlineCalculation consumes the obligations list that
\* FilingObligations produced in the same call.
C12_PipelineOrder ==
  \A c \in Calls :
    calls[c].pc # "unused" =>
      LET steps == calls[c].reasoningSteps
          applicable == SelectSeq(calls[c].obligations, LAMBDA o : o.isApplicable)
      IN  /\ Len(steps) = StepsRecordedAt(calls[c].pc)
          /\ \A i \in 1..Len(steps) :
               steps[i].stepNumber = i /\ steps[i].ruleModuleId = PipelineOrder[i]
          /\ calls[c].pc = "done" =>
               (calls[c].output.reasoningReceipt.steps = steps /\ Len(steps) = 5)
          \* resolved after step 1: step 1's record shows what the resolution uses
          /\ calls[c].pc \in {"start", "regime"} => calls[c].effectiveInput = << >>
          /\ calls[c].pc \in AfterTax =>
               (/\ steps[2].input.regime = calls[c].effectiveRegime
                /\ calls[c].effectiveInput.selectedRegime = calls[c].effectiveRegime
                /\ steps[1].output.recommendation = calls[c].regimeComparison.recommendation)
          /\ calls[c].pc \in AfterDeadlines =>
               (/\ steps[4].input.obligations
                     = [i \in 1..Len(applicable) |-> applicable[i].formCode]
                /\ \A i \in 1..Len(calls[c].deadlines) :
                     \E j \in 1..Len(calls[c].obligations) :
                       calls[c].obligations[j].id = calls[c].deadlines[i].obligationId)

\* A finished call whose receipt shows the five steps and whose deadlines
\* refer to its obligations.
C12_Witness ==
  \E c \in Calls :
    /\ calls[c].pc = "done"
    /\ Len(calls[c].output.reasoningReceipt.steps) = 5
    /\ calls[c].output.reasoningReceipt.steps[5].ruleModuleId = "RISK_ASSESSMENT"
    /\ calls[c].output.reasoningReceipt.steps[5].stepNumber = 5
    /\ Len(calls[c].output.deadlines) >= 4
    /\ ruleInput.selectedRegime = UNDETERMINED

(***************************************************************************)
(* C13  Completeness                                                       *)
(***************************************************************************)
\* C13: completeness is assessed on the original input: the missing fields
\* are a missing taxpayer id and an empty income-stream list, the warnings
\* are a selectedRegime of Undetermined (although the engine resolved a
\* regime) and a stream with withholding but no certificate received, and
\* the score is round(100 - 10 * missing - 5 * warnings) clamped to 0..100.
C13_Completeness ==
  \A c \in Calls :
    calls[c].pc = "done" =>
      LET completeness == calls[c].output.reasoningReceipt.completeness
          streams == ruleInput.incomeStreams
          noTin == ruleInput.tin = Undefined
          noStreams == streams = << >>
          undetermined == ruleInput.selectedRegime = UNDETERMINED
          uncertified == \E i \in 1..Len(streams) :
                           streams[i].hasWithholding /\ ~streams[i].form2307Received
          raw == 100 - 10 * Len(completeness.missingFields) - 5 * Len(completeness.warnings)
      IN  /\ Len(completeness.missingFields) = (IF noTin THEN 1 ELSE 0) + (IF noStreams THEN 1 ELSE 0)
          /\ noTin <=> \E i \in 1..Len(completeness.missingFields) :
                         completeness.missingFields[i] = "TIN (Tax Identification Number)"
          /\ noStreams <=> \E i \in 1..Len(completeness.missingFields) :
                             completeness.missingFields[i] = "Income streams"
          /\ Len(completeness.warnings) = (IF undetermined THEN 1 ELSE 0) + (IF uncertified THEN 1 ELSE 0)
          /\ undetermined <=> \E i \in 1..Len(completeness.warnings) :
                                completeness.warnings[i] = "Tax regime not selected - using recommended regime"
          /\ completeness.score = (IF raw < 0 THEN 0 ELSE IF raw > 100 THEN 100 ELSE raw)

\* Undetermined on the way in, a regime resolved by the engine, a stream
\* with withholding and no certificate, no taxpayer id: score 80.
C13_Witness ==
  \E c \in Calls :
    /\ calls[c].pc = "done"
    /\ ruleInput.selectedRegime = UNDETERMINED
    /\ calls[c].output.recommendedRegime \in ConcreteRegimes
    /\ ruleInput.tin = Undefined
    /\ Len(calls[c].output.reasoningReceipt.completeness.warnings) = 2
    /\ calls[c].output.reasoningReceipt.completeness.score = 80

(***************************************************************************)
(* C14  Identifier uniqueness                                              *)
(***************************************************************************)
\* The ids of a list of records are pairwise distinct.
DistinctIds(records) ==
  \A i, j \in 1..Len(records) : records[i].id = records[j].id => i = j

\* The ids of a list are prefix-1 .. prefix-n, in some order.
NumberedFromOne(records, prefix) ==
  {records[i].id : i \in 1..Len(records)} = {<<prefix, n>> : n \in 1..Len(records)}

\* C14: within one output the obligation ids are pairwise distinct, the
\* deadline ids are pairwise distinct and the risk-flag ids are pairwise
\* distinct; each deadline's obligationId is the id of exactly one
\* obligation of the same output; the id counters restart with every call,
\* so the ids of a call are numbered from 1 whatever other calls did.
C14_IdUniqueness ==
  \A c \in Calls :
    calls[c].pc = "done" =>
      LET out == calls[c].output IN
      /\ DistinctIds(out.obligations) /\ NumberedFromOne(out.obligations, "OBL")
      /\ DistinctIds(out.deadlines) /\ NumberedFromOne(out.deadlines, "DL")
      /\ DistinctIds(out.riskFlags) /\ NumberedFromOne(out.riskFlags, "RISK")
      /\ \A i \in 1..Len(out.deadlines) :
           Cardinality({j \in 1..Len(out.obligations) :
                          out.obligations[j].id = out.deadlines[i].obligationId}) = 1

\* Two finished calls on one engine, each with several obligations,
\* deadlines and risk flags.
C14_Witness ==
  \A c \in Calls :
    /\ calls[c].pc = "done"
    /\ Len(calls[c].output.obligations) >= 4
    /\ Len(calls[c].output.deadlines) >= 4
    /\ Len(calls[c].output.riskFlags) >= 2

(***************************************************************************)
(* C15  Deadline ordering                                                  *)
(***************************************************************************)
\* C15: in the deadline list every deadline whose due date is ASAP comes
\* before every dated deadline, and the dated deadlines are in
\* non-decreasing order of due date.
C15_DeadlineOrdering ==
  \A c \in Calls :
    calls[c].pc \in AfterDeadlines =>
      LET deadlines == calls[c].deadlines IN
      \A i, j \in 1..Len(deadlines) :
        i < j =>
          /\ deadlines[j].dueDate = ASAP => deadlines[i].dueDate = ASAP
          /\ (deadlines[i].dueDate # ASAP /\ deadlines[j].dueDate # ASAP) =>
               ParseISODate(deadlines[i].dueDate) <= ParseISODate(deadlines[j].dueDate)

\* A sorted list that starts with the ASAP deadline, which was not the
\* first one computed, followed by dated deadlines computed out of date
\* order.
C15_Witness ==
  \E c \in Calls :
    /\ calls[c].pc = "done"
    /\ Len(calls[c].output.deadlines) >= 5
    /\ calls[c].output.deadlines[1].dueDate = ASAP
    /\ calls[c].output.deadlines[1].id[2] > 1
    /\ \E i \in 2..(Len(calls[c].output.deadlines) - 1) :
         calls[c].output.deadlines[i].id[2] > calls[c].output.deadlines[i + 1].id[2]

(***************************************************************************)
(* C16  Deadlines only for applicable obligations                          *)
(***************************************************************************)
\* The deadlines of a list that refer to the obligation, by position.
DeadlinesOf(deadlines, obligation) ==
  {i \in 1..Len(deadlines) : deadlines[i].obligationId = obligation.id}

\* C16: no deadline refers to an obligation whose isApplicable is false
\* (the inapplicable 2551Q record under the flat regime yields none), and a
\* quarterly obligation without a deadline configuration (2307) yields none.
C16_OnlyApplicable ==
  \A c \in Calls :
    calls[c].pc \in AfterDeadlines =>
      \A j \in 1..Len(calls[c].obligations) :
        LET obligation == calls[c].obligations[j] IN
        (\/ ~obligation.isApplicable
         \/ (obligation.frequency = "quarterly" /\ ~HasConfig(obligation.formCode)))
          => DeadlinesOf(calls[c].deadlines, obligation) = {}

\* A finished call under the flat regime with the inapplicable 2551Q record
\* and a 2307 record, and deadlines for the other obligations.
C16_Witness ==
  \E c \in Calls :
    /\ calls[c].pc = "done"
    /\ calls[c].effectiveRegime = EIGHT_PERCENT_FLAT
    /\ \E j \in 1..Len(calls[c].obligations) :
         calls[c].obligations[j].formCode = "2551Q" /\ ~calls[c].obligations[j].isApplicable
    /\ \E j \in 1..Len(calls[c].obligations) :
         calls[c].obligations[j].formCode = "2307" /\ calls[c].obligations[j].isApplicable
    /\ Len(calls[c].deadlines) >= 4

(***************************************************************************)
(* C17  One deadline per annual obligation                                 *)
(***************************************************************************)
\* The written form of a calendar day.
DateOf(day) ==
  LET c == CivilFromDays(day) IN [asap |-> FALSE, y |-> c.y, m |-> c.m, d |-> c.d]

\* C17: each applicable obligation with annual frequency yields exactly one
\* Deadline: for form 0605 it is due January 31 of the tax year
\* (weekend-adjusted); for form 1901 it is the sentinel ASAP with an empty
\* reminder list; for every other annual obligation it is the configured
\* (month, day), default April 15, of taxYear + 1.
C17_OneAnnualDeadline ==
  \A c \in Calls :
    calls[c].pc \in AfterDeadlines =>
      \A j \in 1..Len(calls[c].obligations) :
        LET obligation == calls[c].obligations[j]
            own == DeadlinesOf(calls[c].deadlines, obligation)
        IN  (obligation.isApplicable /\ obligation.frequency = "annual") =>
              /\ Cardinality(own) = 1
              /\ \A i \in own :
                   LET deadline == calls[c].deadlines[i] IN
                   IF obligation.formCode = "0605"
                     THEN deadline.dueDate
                            = DateOf(ShiftedOffWeekend(DayNumber(ruleInput.taxYear, 1, 31)))
                   ELSE IF obligation.formCode = "1901"
                     THEN deadline.dueDate = ASAP /\ deadline.reminderDays = << >>
                   ELSE deadline.dueDate
                          = DateOf(ShiftedOffWeekend(DayNumber(ruleInput.taxYear + 1, 4, 15)))

(***************************************************************************)
(* C18  Quarterly deadline tables                                          *)
(***************************************************************************)
\* The documented due days of the quarterly forms, before the weekend shift.
QuarterlyTable(formCode, taxYear) ==
  IF formCode = "1701Q"
    THEN {DayNumber(taxYear, 5, 15), DayNumber(taxYear, 8, 15), DayNumber(taxYear, 11, 15)}
    ELSE {DayNumber(taxYear, 4, 25), DayNumber(taxYear, 7, 25), DayNumber(taxYear, 10, 25),
          DayNumber(taxYear + 1, 1, 25)}

\* C18: an applicable 1701Q obligation yields deadlines on the 15th of May,
\* August and November of the tax year, and an applicable 2551Q obligation
\* yields deadlines on the 25th of April, July and October of the tax year
\* and on the 25th of January of the following year for Q4, each
\* weekend-adjusted.
C18_QuarterlyTables ==
  \A c \in Calls :
    calls[c].pc \in AfterDeadlines =>
      \A j \in 1..Len(calls[c].obligations) :
        LET obligation == calls[c].obligations[j]
            own == DeadlinesOf(calls[c].deadlines, obligation)
        IN  (obligation.isApplicable /\ obligation.formCode \in {"1701Q", "2551Q"}) =>
              {calls[c].deadlines[i].dueDate : i \in own}
                = {DateOf(ShiftedOffWeekend(day)) :
                     day \in QuarterlyTable(obligation.formCode, ruleInput.taxYear)}

(***************************************************************************)
(* C19  VAT-threshold flags                                                *)
(***************************************************************************)
\* C19: with business gross receipts of at least 80% of the VAT threshold
\* (2,400,000) exactly one VAT flag is emitted: the Warning
\* APPROACHING_VAT_THRESHOLD for receipts up to and including 3,000,000,
\* the CpaReviewRequired EXCEEDS_VAT_THRESHOLD for receipts above
\* 3,000,000; below 2,400,000 neither is emitted.
C19_VatFlags ==
  \A c \in Calls :
    calls[c].pc = "done" =>
      LET riskFlags == calls[c].output.riskFlags
          receipts == BusinessIncomeOf(ruleInput)
          approaching == FlagsCoded(riskFlags, "APPROACHING_VAT_THRESHOLD")
          exceeds == FlagsCoded(riskFlags, "EXCEEDS_VAT_THRESHOLD")
      IN  IF receipts < 2400000 * Peso
            THEN approaching = {} /\ exceeds = {}
          ELSE IF receipts <= 3000000 * Peso
            THEN /\ Cardinality(approaching) = 1 /\ exceeds = {}
                 /\ \A i \in approaching : riskFlags[i].level = WARNING
          ELSE /\ Cardinality(exceeds) = 1 /\ approaching = {}
               /\ \A i \in exceeds : riskFlags[i].level = CPA_REVIEW_REQUIRED

(***************************************************************************)
(* C20  Sequential persistence                                             *)
(***************************************************************************)
\* The highest version among the rows of a profile other than one row; 0
\* without such rows.
HighestVersionBut(taxProfileId, result) ==
  LET others == ResultsOf(taxProfileId) \ {result} IN
  IF others = {} THEN 0
  ELSE CHOOSE v \in {assessmentResults[i].version : i \in others} :
         \A i \in others : assessmentResults[i].version <= v

\* C20: after each successful AssessmentService.runAssessment for a profile
\* (calls not overlapping) the new result has version = previous highest
\* version + 1 (1 for the first), it is the only result of that profile
\* with isStale = false, the previously highest-version result has
\* supersededBy set to the new result, and getLatestAssessment returns the
\* new result.
C20_SequentialPersistence ==
  \A r \in Calls :
    requests[r].pc = "returned" =>
      LET result == requests[r].result
          taxProfileId == requests[r].taxProfileId
          others == ResultsOf(taxProfileId) \ {result}
          previousHighest == HighestVersionBut(taxProfileId, result)
      IN  /\ result \in ResultsOf(taxProfileId)
          /\ assessmentResults[result].version = previousHighest + 1
          /\ ~assessmentResults[result].isStale
          /\ \A i \in others : assessmentResults[i].isStale
          /\ \A i \in others :
               assessmentResults[i].version = previousHighest =>
                 assessmentResults[i].supersededBy = result
          /\ Assessment_getLatestAssessment(requests[r].userId, taxProfileId) = {result}

\* A successful second call for a profile, whose first result is stale and
\* superseded by the new one, next to the current result of another profile.
C20_Witness ==
  \E r \in Calls :
    /\ requests[r].pc = "returned"
    /\ assessmentResults[requests[r].result].version = 2
    /\ \E i \in 1..Len(assessmentResults) :
         /\ assessmentResults[i].taxProfileId # requests[r].taxProfileId
         /\ ~assessmentResults[i].isStale
    /\ \E i \in ResultsOf(requests[r].taxProfileId) :
         assessmentResults[i].supersededBy = requests[r].result

(***************************************************************************)
(* C21  Persistence under interleaving                                     *)
(***************************************************************************)
\* C21: for any interleaving of two or more AssessmentService.runAssessment
\* calls on the same profile the stored results of the profile have
\* pairwise distinct version numbers, strictly increasing in creation
\* order, and once all calls have finished at most one result of the
\* profile is non-stale.
C21_InterleavedPersistence ==
  \A taxProfileId \in TaxProfileIds :
    LET own == ResultsOf(taxProfileId) IN
    /\ \A i, j \in own :
         i < j => assessmentResults[i].version < assessmentResults[j].version
    /\ (\A r \in Calls : requests[r].pc \notin InFlight) =>
         Cardinality({i \in own : ~assessmentResults[i].isStale}) <= 1

(***************************************************************************)
(* C22  Undetermined-regime warning                                        *)
(***************************************************************************)
\* The values of a sequence.
Range(seq) == {seq[i] : i \in 1..Len(seq)}

\* C22: whenever the caller's input has selectedRegime Undetermined the
\* riskFlags returned by runAssessment contain a Warning flag coded
\* REGIME_NOT_SELECTED, and the questions generated from the assessment
\* contain REGIME_SELECTION.
C22_UndeterminedWarning ==
  \A c \in Calls :
    (calls[c].pc = "done" /\ ruleInput.selectedRegime = UNDETERMINED) =>
      /\ \E i \in FlagsCoded(calls[c].output.riskFlags, "REGIME_NOT_SELECTED") :
           calls[c].output.riskFlags[i].level = WARNING
      /\ "REGIME_SELECTION" \in Range(AILayer_generateClarifyingQuestions(calls[c].output))

(***************************************************************************)
(* C23  Low-expense recommendation example                                 *)
(***************************************************************************)
\* An eligible taxpayer with business income 500,000 and deductible
\* expenses 50,000, after RegimeDetermination has run.
LowExpenseExample(c) ==
  /\ calls[c].pc \in AfterRegime
  /\ calls[c].regimeComparison.eligible8Percent
  /\ BusinessIncomeOf(ruleInput) = 500000 * Peso
  /\ DeductibleExpensesOf(ruleInput) = 50000 * Peso

C24_NoPartialPersistence ==
  \A r \in Calls :
    requests[r].pc = "engineError" =>
      LET before == requests[r].resultsAtCall
          taxProfileId == requests[r].taxProfileId
      IN  /\ ResultsOf(taxProfileId)
               = {i \in 1..Len(before) : before[i].taxProfileId = taxProfileId}
          /\ \A i \in ResultsOf(taxProfileId) :
               /\ assessmentResults[i] = before[i]
               /\ ~before[i].isStale =>
                    i \in Assessment_getLatestAssessment(requests[r].userId, taxProfileId)

(***************************************************************************)
(* C25  Cross-module consistency                                           *)
(***************************************************************************)
\* C25: in every AssessmentOutput computedValues.estimatedTax equals the
\* estimated tax that regimeComparison reports for the effective regime:
\* comparison.eightPercent.estimatedTax when it is EightPercentFlat,
\* comparison.graduatedRates.estimatedTax when it is Graduated, also when
\* the caller selected a regime other than the recommendation.
C25_CrossModuleConsistency ==
  \A c \in Calls :
    calls[c].pc = "done" =>
      LET out == calls[c].output
          comparison == out.regimeComparison.comparison
      IN  /\ out.recommendedRegime = EIGHT_PERCENT_FLAT =>
               out.computedValues.estimatedTax = comparison.eightPercent.estimatedTax
          /\ out.recommendedRegime = GRADUATED_RATES =>
               out.computedValues.estimatedTax = comparison.graduatedRates.estimatedTax

(***************************************************************************)
(* C26  Zero business income                                               *)
(***************************************************************************)
\* A rate that is the number 0: a fraction 0 / den with den not 0.
IsZeroRate(rate) == rate.num = 0 /\ rate.den # 0

\* C26: for every input whose non-employment gross is 0, whatever the
\* deductible expenses, RegimeDetermination recommends Graduated with both
\* estimated taxes 0 and both effective rates 0, and runAssessment with
\* selectedRegime Undetermined returns estimatedTax = netTaxPayable = 0 with
\* all four quarterly amounts 0; no undefined ratio reaches the output.
C26_ZeroBusinessIncome ==
  \A c \in Calls :
    BusinessIncomeOf(ruleInput) = 0 =>
      /\ calls[c].pc \in AfterRegime =>
           LET comparison == calls[c].regimeComparison.comparison IN
           /\ calls[c].regimeComparison.recommendation = GRADUATED_RATES
           /\ comparison.eightPercent.estimatedTax = 0
           /\ comparison.graduatedRates.estimatedTax = 0
           /\ IsZeroRate(comparison.eightPercent.effectiveRate)
           /\ IsZeroRate(comparison.graduatedRates.effectiveRate)
      /\ (calls[c].pc = "done" /\ ruleInput.selectedRegime = UNDETERMINED) =>
           LET computedValues == calls[c].output.computedValues IN
           /\ calls[c].output.recommendedRegime = GRADUATED_RATES
           /\ computedValues.estimatedTax = 0
           /\ computedValues.netTaxPayable = 0
           /\ computedValues.quarterlyPayments.q1 = 0
           /\ computedValues.quarterlyPayments.q2 = 0
           /\ computedValues.quarterlyPayments.q3 = 0
           /\ computedValues.quarterlyPayments.annual = 0

\* A finished assessment of a taxpayer with employment income only and
\* deductible expenses, the regime left to the engine: the deduction ratio
\* is a division by 0.
C26_Witness ==
  \E c \in Calls :
    /\ calls[c].pc = "done"
    /\ ruleInput.selectedRegime = UNDETERMINED
    /\ BusinessIncomeOf(ruleInput) = 0
    /\ DeductibleExpensesOf(ruleInput) > 0
    /\ ruleInput.incomeStreams # << >>
    /\ calls[c].regimeComparison.eligible8Percent

(***************************************************************************)
(* C27  Regime lock                                                        *)
(***************************************************************************)
\* The step is update call u reading the profile and running up to its
\* next await.
FindOneStep(u) ==
  updates[u].pc = "findOne" /\ updates'[u].pc # "findOne"

\* C27: an update that sets selectedRegime to Graduated or EightPercentFlat
\* leaves regimeLockedAt set; from then on an update that carries a
\* selectedRegime is rejected with BadRequest and leaves the profile
\* unchanged, the stored selectedRegime never changes again, and updates
\* without selectedRegime are still accepted.
C27_RegimeLock ==
  [][/\ \A u \in Calls :
          /\ (/\ updates[u].pc = "update" /\ updates'[u].pc = "returned"
              /\ updates[u].dto.selectedRegime \in ConcreteRegimes)
               => /\ taxProfile'.selectedRegime = updates[u].dto.selectedRegime
                  /\ taxProfile'.regimeLockedAt # 0
          /\ (/\ FindOneStep(u)
              /\ taxProfile.userId = updates[u].userId
              /\ taxProfile.regimeLockedAt # 0)
               => IF updates[u].dto.selectedRegime # Undefined
                  THEN /\ updates'[u].pc = "BadRequestException"
                       /\ taxProfile' = taxProfile
                  ELSE updates'[u].pc = "update"
      /\ taxProfile.regimeLockedAt # 0
           => taxProfile'.selectedRegime = taxProfile.selectedRegime
    ]_vars

(***************************************************************************)
(* C28  An engine-chosen flat regime and the high-expense flag             *)
(***************************************************************************)
\* C28: for every input with selectedRegime Undetermined the riskFlags
\* returned by runAssessment do not contain 8PCT_HIGH_EXPENSES; the flag
\* appears only when the caller selected EightPercentFlat and the deductible
\* expenses are above 50% of the business gross receipts.
C28_HighExpenseFlag ==
  \A c \in Calls :
    calls[c].pc = "done" =>
      LET flagged == FlagsCoded(calls[c].output.riskFlags, "8PCT_HIGH_EXPENSES") # {} IN
      /\ ruleInput.selectedRegime = UNDETERMINED => ~flagged
      /\ flagged =>
           /\ ruleInput.selectedRegime = EIGHT_PERCENT_FLAT
           /\ 2 * DeductibleExpensesOf(ruleInput) > BusinessIncomeOf(ruleInput)

\* A finished assessment in which the engine chose the flat regime for a
\* taxpayer who has deductible expenses and selected no regime.
C28_Witness ==
  \E c \in Calls :
    /\ calls[c].pc = "done"
    /\ ruleInput.selectedRegime = UNDETERMINED
    /\ calls[c].output.recommendedRegime = EIGHT_PERCENT_FLAT
    /\ DeductibleExpensesOf(ruleInput) > 0
    /\ calls[c].output.riskFlags # << >>

(***************************************************************************)
(* C29  Missing-field questions                                            *)
(***************************************************************************)
\* The completeness and the risk flags of the assessment that runAssessment
\* returns, and the service stores, for an input.
StoredAssessment(in) ==
  LET regimeComparison == Regime_execute(in)
      effectiveRegime == Service_effectiveRegime(in, regimeComparison)
      effectiveInput == [in EXCEPT !.selectedRegime = effectiveRegime]
  IN  [reasoningReceipt |-> [completeness |-> Service_assessCompleteness(in)],
       riskFlags |-> Risk_execute(effectiveInput, 1)]

\* C29: there is a valid RuleInput for which runAssessment reports a
\* completeness score below 70 and generateClarifyingQuestions, run on the
\* stored assessment, returns a MISSING_* question for each entry of
\* completeness.missingFields. The inputs range over every combination of
\* the four conditions the score depends on, and a finished run of such an
\* input reports that completeness.
C29_MissingFieldQuestions ==
  \E in \in FilingInputs :
    LET assessment == StoredAssessment(in)
        completeness == assessment.reasoningReceipt.completeness
        questions == Range(AILayer_generateClarifyingQuestions(assessment))
    IN  /\ \A c \in Calls :
             (calls[c].pc = "done" /\ ruleInput = in) =>
               calls[c].output.reasoningReceipt.completeness = completeness
        /\ completeness.score < 70
        /\ completeness.missingFields # << >>
        /\ \A i \in 1..Len(completeness.missingFields) :
             AILayer_missingFieldId(completeness.missingFields[i]) \in questions

(***************************************************************************)
(* C30  Time-zone independence of due dates                                *)
(***************************************************************************)
\* C30: for a fixed input the dueDate of every dated Deadline is the same
\* for every host time-zone offset, and it is the calendar date (year,
\* configured month, configured day, after the weekend adjustment) that the
\* rule computed, never the day before or after it.
C30_TimeZoneIndependence ==
  \A c \in Calls :
    calls[c].pc \in AfterDeadlines =>
      /\ \A tz \in TzOffsets :
           calls[c].deadlines =
             Deadline_execute(calls[c].effectiveInput, calls[c].obligations, tz, c)
      /\ \A i \in 1..Len(calls[c].deadlines) :
           LET deadline == calls[c].deadlines[i] IN
           (/\ ~deadline.dueDate.asap
            /\ deadline.formCode \in {"1701Q", "2551Q"}
            /\ deadline.period[1] \in {"Q1", "Q2", "Q3"})
             => LET configured ==
                      FILING_DEADLINES[deadline.formCode].quarterDeadlines[deadline.period[1]]
                IN  deadline.dueDate =
                      DateOf(Deadline_calculateDueDate(ruleInput.taxYear, configured.month,
                                                       configured.day, deadline.period[1]))

====
